---- MODULE Spec2Model ----
(***************************************************************************)
(* Model of the omron-fins client: FinsClient (lib/fins_client.js) and the *)
(* SequenceManager it uses.                                                *)
(*                                                                         *)
(* SequenceManager is called WITHOUT `new` from FinsClient.prototype.init, *)
(* in a non-strict CommonJS module, so `this` (and `self`) inside it is    *)
(* the global object: statistics, callback, options and sequences are      *)
(* properties of globalThis, shared by every client of the process and     *)
(* re-assigned by every init().  They are therefore single (not            *)
(* per-client) variables here.                                             *)
(*                                                                         *)
(* Event-loop callbacks (setImmediate, timers, socket callbacks) run to    *)
(* completion, so each is one action.  The caller is assumed to have       *)
(* 'error' listeners attached (an unhandled 'error' event would throw).    *)
(***************************************************************************)
EXTENDS Integers, Sequences, FiniteSets, TLC

\* ------------------------------------------------------------------ bounds
MaxSubmit == 2
MaxSeqSubmit == 256
MaxBurstSubmit == 255
MaxCallSubmit == 1
MaxTwoSubmit == 2
MaxQueue == 1
MaxLiveSubmit == 2
MaxByte == 255
MaxReplySubmit == 1
MaxTcpSubmit == 2

\* --------------------------------------------------------- program constants
MinSID == 1
MaxSID == 254
SIDModulus == 254
DefaultTimeout == 2000

Clients == {"A", "B"}
TimeoutOptions == {2000, 500}

AddressMethods == {"read", "write", "fill"}
LateCheckMethods == {"read-multiple", "transfer"}
PlainMethods == {"run", "stop", "cpu-unit-data-read", "status"}
LifecycleMethods == {"read", "write"}
Methods == AddressMethods \cup LateCheckMethods \cup PlainMethods

CommandCode(name) ==
    CASE name = "read" -> "0101"
      [] name = "write" -> "0102"
      [] name = "fill" -> "0103"
      [] name = "read-multiple" -> "0104"
      [] name = "transfer" -> "0105"
      [] name = "run" -> "0401"
      [] name = "stop" -> "0402"
      [] name = "cpu-unit-data-read" -> "0501"
      [] name = "status" -> "0601"
      [] OTHER -> "none"

CommandName(code) == CHOOSE m \in Methods : CommandCode(m) = code

VARIABLES
    constructed,   \* client -> has `new FinsClient` run
    headerSID,     \* client -> self.header.SID
    socket,        \* client -> self.socket exists with its listeners
    max_queue,     \* client -> self.max_queue
    timeout,       \* client -> self.timeout
    sequences,     \* globalThis.sequences : SID -> sequence object
    statistics,    \* globalThis.statistics counters
    mgrCallback,   \* globalThis.callback : the client whose closure it is
    mgrTimeoutMS,  \* globalThis.options.timeoutMS
    reqs,          \* heap: request / sequence objects still referenced
    immediates,    \* setImmediate queue of _transmitCommand closures
    nextRid,       \* number of the next SID allocation of the process, which
                   \* is also the identity of the request object it is for
    submitted,     \* history: client -> {<<sid, command name>>} it allocated
    emitted,       \* callbacks, events, throws and return of the last step
    crashed,       \* an exception escaped an event-loop callback
    conn,          \* client -> protocol, attached data listener, connected,
                   \* client_node_no, server_node_no
    rx,            \* bytes handed to a decoder and what it returned
    stream         \* TCP: bytes the peer has written that the socket has not
                   \* yet handed to the data listener

vars == <<constructed, headerSID, socket, max_queue, timeout, sequences,
          statistics, mgrCallback, mgrTimeoutMS, reqs, immediates, nextRid,
          submitted, emitted, crashed, conn, rx, stream>>

clientVars == <<constructed, headerSID, socket, max_queue, timeout, sequences,
                statistics, mgrCallback, mgrTimeoutMS, reqs, immediates,
                nextRid, submitted, emitted, crashed, conn, stream>>

\* --------------------------------------------------------------- helpers
EmptyFn == [x \in {} |-> 0]

\* request.address entries: memoryAreaCode and isBitAddress of a decoded
\* address (D100 is 0x82 / word, D5.1 is 0x02 / bit, CIO50 is 0xB0 / word)
AddrD == [memoryAreaCode |-> 130, isBitAddress |-> FALSE]

AddrDBit == [memoryAreaCode |-> 2, isBitAddress |-> TRUE]

AddrCIO == [memoryAreaCode |-> 176, isBitAddress |-> FALSE]

\* seq.response before a reply was processed
NoResponse == [endCode |-> "none", values |-> <<>>]

NoSeq == [client |-> "none", sid |-> 0, cmd |-> "none", cb |-> FALSE,
          phase |-> "none", sent |-> FALSE, complete |-> FALSE,
          timeout |-> FALSE, error |-> FALSE, timer |-> FALSE,
          sending |-> FALSE, stale |-> "no", timeoutMS |-> 0,
          address |-> <<>>, response |-> NoResponse]

\* kind: "callback" (a per-request callback), an event name ("reply",
\* "error", "full", "close"), "throw" or "return".  client: the client whose
\* caller receives it (the emitter of an event, the owner of a callback).
\* seq: the sequence object handed over, as it is at that moment.
Ev(kind, client, err, rid, seq, val, code) ==
    [kind |-> kind, client |-> client, err |-> err, rid |-> rid,
     seq |-> seq, val |-> val, code |-> code]

\* self.protocol, the listener attached to the transport's data event,
\* self.connected, self.client_node_no, self.server_node_no (undefined: -1)
NoConn == [protocol |-> "udp", onData |-> "receive", connected |-> FALSE,
           client_node_no |-> -1, server_node_no |-> -1]

NoRx == [fn |-> "none", in |-> <<>>, out |-> <<>>]

ZeroStatistics == [replyCount |-> 0, errorCount |-> 0, timeoutCount |-> 0]

Range(f) == {f[x] : x \in DOMAIN f}

\* An object stays on the heap while something still refers to it: a queued
\* setImmediate closure, the sequence table, a pending timer closure or a
\* pending socket.send callback.
Collect(rq, tbl) ==
    LET held == Range(tbl) IN
    [r \in {x \in DOMAIN rq : \/ rq[x].phase = "deferred"
                              \/ x \in held
                              \/ rq[x].timer
                              \/ rq[x].sending} |-> rq[r]]

Terminal(s) == s.complete \/ s.timeout \/ s.error

\* ------------------------------------------------------- bytes and hex
\* a & b on non-negative integers
RECURSIVE BitAnd(_, _)
BitAnd(a, b) ==
    IF a = 0 \/ b = 0 THEN 0
    ELSE (a % 2) * (b % 2) + 2 * BitAnd(a \div 2, b \div 2)

HexDigit(d) ==
    CASE d = 0 -> "0" [] d = 1 -> "1" [] d = 2 -> "2" [] d = 3 -> "3"
      [] d = 4 -> "4" [] d = 5 -> "5" [] d = 6 -> "6" [] d = 7 -> "7"
      [] d = 8 -> "8" [] d = 9 -> "9" [] d = 10 -> "a" [] d = 11 -> "b"
      [] d = 12 -> "c" [] d = 13 -> "d" [] d = 14 -> "e" [] d = 15 -> "f"

\* Number.prototype.toString(16)
RECURSIVE toString16(_)
toString16(n) ==
    IF n < 16 THEN HexDigit(n)
    ELSE toString16(n \div 16) \o HexDigit(n % 16)

\* while (endCode.length < 4) endCode = "0" + endCode
RECURSIVE padStart(_, _)
padStart(str, width) ==
    IF Len(str) < width THEN padStart("0" \o str, width) ELSE str

\* ------------------------------------------- constants.EndCodeDescriptions
\* The defined end codes as (MRES, SRES) byte pairs, row by row of the table.
DefinedEndCodes ==
    {<<0, 0>>, <<0, 1>>}
    \cup {<<1, n>> : n \in 1..6} \cup {<<2, n>> : n \in 1..5}
    \cup {<<3, n>> : n \in 1..4} \cup {<<4, n>> : n \in 1..2}
    \cup {<<5, n>> : n \in 1..4} \cup {<<16, n>> : n \in 1..5}
    \cup {<<17, n>> : n \in {1, 2, 3, 4, 6, 9, 10, 11, 12}}
    \cup {<<32, n>> : n \in 2..7}
    \cup {<<33, n>> : n \in {1, 2, 3, 5, 6, 7, 8}}
    \cup {<<34, n>> : n \in 1..8} \cup {<<35, n>> : n \in 1..3}
    \cup {<<36, 1>>}
    \cup {<<37, n>> : n \in {2, 3, 4, 5, 6, 7, 9, 10, 13, 15, 16}}
    \cup {<<38, n>> : n \in {1, 2, 4, 5, 6, 7, 8, 9, 10, 11}}
    \cup {<<48, 1>>, <<64, 1>>}

\* the keys of the table are written with upper-case hex digits
UpperHexDigit(d) ==
    CASE d = 10 -> "A" [] d = 11 -> "B" [] d = 12 -> "C" [] d = 13 -> "D"
      [] d = 14 -> "E" [] d = 15 -> "F" [] OTHER -> HexDigit(d)

EndCodeKey(mres, sres) ==
    UpperHexDigit(mres \div 16) \o UpperHexDigit(mres % 16)
        \o UpperHexDigit(sres \div 16) \o UpperHexDigit(sres % 16)

\* the table: key -> the description stored under it (named by its key)
EndCodeDescriptions ==
    [k \in {EndCodeKey(p[1], p[2]) : p \in DefinedEndCodes} |->
        "description of " \o k]

\* constants.EndCodeDescriptions[endCode] + ""
endCodeDescription(endCode) ==
    IF endCode \in DOMAIN EndCodeDescriptions
    THEN EndCodeDescriptions[endCode] ELSE "undefined"

\* ----------------------------------------------------------- _processEndCode
_processEndCodeUnmasked(hiByte, loByte) ==
    [MRES |-> hiByte, SRES |-> loByte,
     NetworkRelayError |-> BitAnd(hiByte, 128) > 0,
     NonFatalCPUUnitErr |-> BitAnd(loByte, 64) > 0,
     FatalCPUUnitErr |-> BitAnd(loByte, 128) > 0,
     endCode |-> padStart(toString16(hiByte * 256 + loByte), 4),
     endCodeDescription |->
         endCodeDescription(padStart(toString16(hiByte * 256 + loByte), 4))]

_processEndCode(hiByte, loByte) ==
    LET MRES == BitAnd(hiByte, 63)     \* 0x3f
        SRES == BitAnd(loByte, 47)     \* 0x2f
    IN [MRES |-> MRES, SRES |-> SRES,
        NetworkRelayError |-> BitAnd(hiByte, 128) > 0,
        NonFatalCPUUnitErr |-> BitAnd(loByte, 64) > 0,
        FatalCPUUnitErr |-> BitAnd(loByte, 128) > 0,
        endCode |-> padStart(toString16(MRES * 256 + SRES), 4),
        endCodeDescription |->
            endCodeDescription(padStart(toString16(MRES * 256 + SRES), 4))]

\* --------------------------------------------------- header.incrementSID
incrementSIDWide(sid) == (sid % 255) + 1

incrementSID(sid) == (sid % SIDModulus) + 1

\* ------------------------------------------------ SequenceManager.activeCount
activeCount ==
    Cardinality({s \in DOMAIN sequences : ~Terminal(reqs[sequences[s]])})

\* FinsClient.prototype.queueCount
queueCount(c) == activeCount

\* ------------------------------------------------------ SequenceManager.get
get(tbl, SID) ==
    IF SID >= MinSID /\ SID <= MaxSID /\ SID \in DOMAIN tbl THEN tbl[SID] ELSE 0

\* Completion dispatch used by add, the timer closure and setError:
\* request.callback if present, else globalThis.callback, which emits
\* "error" on the client whose init() installed it.
DispatchDropped(rq, rid, err) ==
    Ev("dropped", rq[rid].client, err, rid, rq[rid], 0, "none")

Dispatch(rq, rid, err) ==
    IF rq[rid].cb
    THEN Ev("callback", rq[rid].client, err, rid, rq[rid], 0, "none")
    ELSE Ev("error", mgrCallback, err, rid, rq[rid], 0, "none")

\* ---------------------------------------------------------------- _sendFull
_sendFull(c, cb) ==
    (IF cb THEN <<Ev("callback", c, "full", 0, NoSeq, 0, "none")>> ELSE <<>>)
    \o <<Ev("full", c, "none", 0, NoSeq, 0, "none")>>

\* write() calls _sendFull(callback): `self` is the callback (or undefined)
\* and self.emit is not a function, so a TypeError is thrown to the caller.
_sendFullWrite(c, cb) == <<Ev("throw", c, "TypeError", 0, NoSeq, 0, "none")>>

\* --------------------------------------------------------------- _sendError
_sendError(c, cb) ==
    IF cb THEN <<Ev("callback", c, "invalid", 0, NoSeq, 0, "none")>>
          ELSE <<Ev("error", c, "invalid", 0, NoSeq, 0, "none")>>

Return(c, v) == <<Ev("return", c, "none", 0, NoSeq, v, "none")>>

\* ------------------------------------------------------------------- Init
IdleWith(cn) ==
    /\ constructed = [c \in Clients |-> c = "A"]
    /\ headerSID = [c \in Clients |-> 0]
    /\ socket = [c \in Clients |-> c = "A"]
    /\ max_queue = [c \in Clients |-> MaxQueue]
    /\ timeout = [c \in Clients |-> DefaultTimeout]
    /\ sequences = EmptyFn
    /\ statistics = ZeroStatistics
    /\ mgrCallback = "A"
    /\ mgrTimeoutMS = DefaultTimeout
    /\ reqs = EmptyFn
    /\ immediates = <<>>
    /\ nextRid = 1
    /\ submitted = [c \in Clients |-> {}]
    /\ emitted = <<>>
    /\ crashed = FALSE
    /\ conn = cn
    /\ stream = <<>>

\* client A over UDP
Idle == IdleWith([c \in Clients |-> NoConn])

Init ==
    /\ Idle
    /\ rx = NoRx

\* ------------------------------------------- the command methods (read, ...)
\* What the caller passes.  "badAddress": an address string that names no
\* memory area (in readMultiple: one such item of the list); "missingCount":
\* count undefined or 0; "emptyData": data = []; "badValue": a fill value
\* that is not a number; "notList": readMultiple addresses that are neither
\* a string nor an array.
ArgKinds(m) ==
    CASE m = "read" -> {"ok", "badAddress", "missingCount"}
      [] m = "write" -> {"ok", "badAddress", "emptyData"}
      [] m = "fill" -> {"ok", "badAddress", "badValue"}
      [] m = "read-multiple" -> {"ok", "badAddress", "notList"}
      [] m = "transfer" -> {"ok", "badAddress"}
      [] OTHER -> {"ok"}

\* the arguments a method checks, and reports with _sendError + return null
Rejected(m, arg) ==
    CASE m = "read" -> arg \in {"badAddress", "missingCount"}
      [] m = "write" -> arg \in {"badAddress", "emptyData"}
      [] m = "fill" -> arg \in {"badAddress", "badValue"}
      [] m = "read-multiple" -> arg = "badAddress"
      [] m = "transfer" -> arg = "badAddress"
      [] OTHER -> FALSE

\* request.address of a well-formed call
DefaultAddress(m) ==
    CASE m \in AddressMethods -> <<AddrD>>
      [] m = "read-multiple" -> <<AddrD, AddrDBit>>
      [] OTHER -> <<>>

\* viaCommand: the method is reached through command(code, params, opts, tag),
\* which runs its own admission check and then delegates with the options
\* object from which _normaliseCommandOptions has removed the callback.
SubmitArgs(c, viaCommand, m, cb, arg, address, bound) ==
    LET full == queueCount(c) >= max_queue[c]
        ecb  == IF viaCommand THEN FALSE ELSE cb
        SID  == incrementSID(headerSID[c])
        rid  == nextRid
    IN
    /\ ~crashed
    /\ constructed[c]
    /\ arg \in ArgKinds(m)
    /\ IF full THEN
          /\ emitted' = IF m = "write" /\ ~viaCommand
                        THEN _sendFullWrite(c, cb)
                        ELSE _sendFull(c, cb) \o Return(c, 0)
          /\ UNCHANGED <<headerSID, reqs, immediates, nextRid, submitted>>
       ELSE IF Rejected(m, arg) /\ m \in AddressMethods THEN
          /\ emitted' = _sendError(c, ecb) \o Return(c, 0)
          /\ UNCHANGED <<headerSID, reqs, immediates, nextRid, submitted>>
       ELSE IF Rejected(m, arg) /\ m \in LateCheckMethods THEN
          \* readMultiple and transfer call header.next() before validating
          /\ nextRid <= bound
          /\ headerSID' = [headerSID EXCEPT ![c] = SID]
          /\ nextRid' = nextRid + 1
          /\ emitted' = _sendError(c, ecb) \o Return(c, 0)
          /\ UNCHANGED <<reqs, immediates, submitted>>
       ELSE
          /\ nextRid <= bound
          /\ headerSID' = [headerSID EXCEPT ![c] = SID]
          /\ reqs' = reqs @@ (rid :> [NoSeq EXCEPT !.client = c, !.sid = SID,
                                        !.cmd = m, !.cb = ecb,
                                        !.phase = "deferred",
                                        !.address = IF arg = "notList" THEN <<>>
                                                    ELSE address])
          \* _transmitCommand: setImmediate(...)
          /\ immediates' = Append(immediates, rid)
          /\ nextRid' = nextRid + 1
          /\ submitted' = [submitted EXCEPT ![c] = @ \cup {<<SID, m>>}]
          \* readMultiple reports "invalid address" for addresses that are
          \* neither a string nor an array and carries on with an empty list
          /\ emitted' = (IF arg = "notList" THEN _sendError(c, ecb) ELSE <<>>)
                        \o Return(c, SID)
    /\ UNCHANGED <<constructed, socket, max_queue, timeout, sequences,
                   statistics, mgrCallback, mgrTimeoutMS, crashed,
                   conn, rx, stream>>

\* a call whose arguments are well formed (argOk) or name no memory area
SubmitCall(c, viaCommand, m, cb, argOk, bound) ==
    /\ m \in PlainMethods => argOk
    /\ SubmitArgs(c, viaCommand, m, cb, IF argOk THEN "ok" ELSE "badAddress",
                  DefaultAddress(m), bound)

\* ------------------- command(commandCode, params, opts, tag) with a code
\* that constants.Commands does not hold ("unknownCode") or with a parameter
\* its table entry rejects ("badParam").  Both report through
\* _sendError(message, callback, {tag: tag}): the client argument is
\* missing, so inside _sendError `callback` is the {tag: tag} object, which
\* is truthy and not a function, and calling it throws a TypeError.  With a
\* known code and accepted parameters command() delegates: SubmitArgs with
\* viaCommand.
CommandChecks == {"unknownCode", "badParam"}

commandRejected(c, cb, check) ==
    /\ ~crashed
    /\ constructed[c]
    /\ check \in CommandChecks
    /\ emitted' = IF queueCount(c) >= max_queue[c]
                  THEN _sendFull(c, cb) \o Return(c, 0)
                  ELSE <<Ev("throw", c, "TypeError", 0, NoSeq, 0, "none")>>
    /\ UNCHANGED <<constructed, headerSID, socket, max_queue, timeout, sequences,
                   statistics, mgrCallback, mgrTimeoutMS, reqs, immediates,
                   nextRid, submitted, crashed, conn, rx, stream>>

\* a caller that uses read and write with well-formed arguments
Submit(c) ==
    \E m \in LifecycleMethods, cb \in BOOLEAN :
        SubmitCall(c, FALSE, m, cb, TRUE, MaxSubmit)

\* a callback that hands the frame to the socket without add()
RunImmediateUnregistered ==
    /\ ~crashed
    /\ immediates # <<>>
    /\ socket[reqs[Head(immediates)].client]
    /\ immediates' = Tail(immediates)
    /\ reqs' = [reqs EXCEPT ![Head(immediates)].sending = TRUE,
                            ![Head(immediates)].timer = TRUE]
    /\ emitted' = <<>>
    /\ UNCHANGED <<constructed, headerSID, socket, max_queue, timeout,
                   sequences, statistics, mgrCallback, mgrTimeoutMS, nextRid,
                   submitted, crashed, conn, rx, stream>>

\* ------------------- the setImmediate closure of _transmitCommand, with
\* SequenceManager.add inlined
RunImmediate ==
    /\ ~crashed
    /\ immediates # <<>>
    /\ LET rid   == Head(immediates)
           r     == reqs[rid]
           old   == get(sequences, r.sid)
           inUse == old # 0 /\ ~reqs[old].complete /\ ~reqs[old].timeout
           canSend == socket[r.client]
           rq1   == [reqs EXCEPT ![rid] = [@ EXCEPT !.phase = "registered",
                                                    !.timer = TRUE,
                                                    !.timeoutMS = mgrTimeoutMS,
                                                    !.sending = canSend]]
           tbl1  == [s \in DOMAIN sequences \cup {r.sid} |->
                        IF s = r.sid THEN rid ELSE sequences[s]]
       IN
       /\ immediates' = Tail(immediates)
       /\ sequences' = tbl1
       /\ reqs' = Collect(rq1, tbl1)
       /\ emitted' = (IF inUse THEN <<Dispatch(reqs, old, "sidInUse")>> ELSE <<>>)
                     \o (IF canSend THEN <<>>
                         ELSE <<Ev("throw", r.client, "TypeError", rid, rq1[rid], 0, "none")>>)
       \* fcInstance.socket is undefined after close(): the TypeError escapes
       \* the setImmediate callback
       /\ crashed' = ~canSend
    /\ UNCHANGED <<constructed, headerSID, socket, max_queue, timeout,
                   statistics, mgrCallback, mgrTimeoutMS, nextRid, submitted,
                   conn, rx, stream>>

\* ------------------- the callback given to socket.send: setError or
\* confirmSent on whatever sequence the table holds for that SID now
\* the send callback with a confirmSent that also ends the sequence
SendDoneCompletes(rid, ok) ==
    /\ ~crashed
    /\ rid \in DOMAIN reqs
    /\ reqs[rid].sending
    /\ LET t   == get(sequences, reqs[rid].sid)
           rq0 == [reqs EXCEPT ![rid].sending = FALSE]
           rq1 == IF t = 0 THEN rq0
                  ELSE IF ok THEN [rq0 EXCEPT ![t].sent = TRUE,
                                              ![t].complete = TRUE,
                                              ![t].timer = FALSE]
                  ELSE [rq0 EXCEPT ![t].error = TRUE, ![t].timer = FALSE]
       IN
       /\ reqs' = Collect(rq1, sequences)
       /\ statistics' = IF t # 0 /\ ~ok
                        THEN [statistics EXCEPT !.errorCount = @ + 1]
                        ELSE statistics
       /\ emitted' = IF t # 0 /\ ~ok THEN <<Dispatch(rq1, t, "send")>> ELSE <<>>
    /\ UNCHANGED <<constructed, headerSID, socket, max_queue, timeout, sequences,
                   mgrCallback, mgrTimeoutMS, immediates, nextRid, submitted,
                   crashed,
                   conn, rx, stream>>

SendDone(rid, ok) ==
    /\ ~crashed
    /\ rid \in DOMAIN reqs
    /\ reqs[rid].sending
    /\ LET t   == get(sequences, reqs[rid].sid)
           rq0 == [reqs EXCEPT ![rid].sending = FALSE]
           rq1 == IF t = 0 THEN rq0
                  ELSE IF ok THEN [rq0 EXCEPT ![t].sent = TRUE]
                  ELSE [rq0 EXCEPT ![t].error = TRUE, ![t].timer = FALSE]
       IN
       /\ reqs' = Collect(rq1, sequences)
       /\ statistics' = IF t # 0 /\ ~ok
                        THEN [statistics EXCEPT !.errorCount = @ + 1]
                        ELSE statistics
       /\ emitted' = IF t # 0 /\ ~ok THEN <<Dispatch(rq1, t, "send")>> ELSE <<>>
    /\ UNCHANGED <<constructed, headerSID, socket, max_queue, timeout, sequences,
                   mgrCallback, mgrTimeoutMS, immediates, nextRid, submitted,
                   crashed,
                   conn, rx, stream>>

\* the timer closure without statistics.addTimeout()
TimeoutUncounted(rid) ==
    /\ ~crashed
    /\ rid \in DOMAIN reqs
    /\ reqs[rid].timer
    /\ LET skip == reqs[rid].complete \/ reqs[rid].error
           rq1  == IF skip THEN [reqs EXCEPT ![rid].timer = FALSE]
                   ELSE [reqs EXCEPT ![rid].timer = FALSE, ![rid].timeout = TRUE]
       IN
       /\ reqs' = Collect(rq1, sequences)
       /\ statistics' = statistics
       /\ emitted' = IF skip THEN <<>> ELSE <<Dispatch(rq1, rid, "timeout")>>
    /\ UNCHANGED <<constructed, headerSID, socket, max_queue, timeout, sequences,
                   mgrCallback, mgrTimeoutMS, immediates, nextRid, submitted,
                   crashed,
                   conn, rx, stream>>

\* ------------------- the setTimeout closure armed by SequenceManager.add
Timeout(rid) ==
    /\ ~crashed
    /\ rid \in DOMAIN reqs
    /\ reqs[rid].timer
    /\ LET skip == reqs[rid].complete \/ reqs[rid].error
           rq1  == IF skip THEN [reqs EXCEPT ![rid].timer = FALSE]
                   ELSE [reqs EXCEPT ![rid].timer = FALSE, ![rid].timeout = TRUE]
       IN
       /\ reqs' = Collect(rq1, sequences)
       /\ statistics' = IF skip THEN statistics
                        ELSE [statistics EXCEPT !.timeoutCount = @ + 1]
       /\ emitted' = IF skip THEN <<>> ELSE <<Dispatch(rq1, rid, "timeout")>>
    /\ UNCHANGED <<constructed, headerSID, socket, max_queue, timeout, sequences,
                   mgrCallback, mgrTimeoutMS, immediates, nextRid, submitted,
                   crashed,
                   conn, rx, stream>>
\* ------------------- receive(buf, rinfo) on the UDP socket of client c for
\* a datagram that is a whole frame with end code 0000 and the body its
\* command calls for: _processReply / _initialProcessing, then process()
FrameSIDs == DOMAIN sequences \cup {0, MaxSID, 255}

FrameCodes == {CommandCode(reqs[r].cmd) : r \in DOMAIN reqs} \cup {"0601"}

Receive(c, sid, code) ==
    /\ ~crashed
    /\ constructed[c]
    /\ socket[c]
    /\ LET t == get(sequences, sid) IN
       IF t = 0 \/ reqs[t].cmd # CommandName(code) THEN
          \* "Unexpected SID" / "Unexpected function type response", caught
          \* by receive and emitted as 'error' without a sequence
          /\ emitted' = <<Ev("error", c, "protocol", 0, NoSeq, 0, "none")>>
          /\ UNCHANGED <<sequences, statistics, reqs>>
       ELSE
          LET \* sequenceManager.done(response.sid)
              rq1 == [reqs EXCEPT ![t].complete = TRUE, ![t].timer = FALSE,
                                  ![t].response = [endCode |-> "0000",
                                                   values |-> <<>>]]
              \* sequenceManager.remove(response.sid)
              tbl1 == [s \in DOMAIN sequences \ {sid} |-> sequences[s]]
          IN
          /\ statistics' = [statistics EXCEPT !.replyCount = @ + 1]
          /\ emitted' = <<IF rq1[t].cb
                          THEN Ev("callback", rq1[t].client, "none", t, rq1[t], sid, code)
                          ELSE Ev("reply", c, "none", t, rq1[t], sid, code)>>
          /\ sequences' = tbl1
          /\ reqs' = Collect(rq1, tbl1)
    /\ UNCHANGED <<constructed, headerSID, socket, max_queue, timeout,
                   mgrCallback, mgrTimeoutMS, immediates, nextRid, submitted,
                   crashed,
                   conn, rx, stream>>

Reply(c) == \E sid \in FrameSIDs, code \in FrameCodes : Receive(c, sid, code)

\* ------------------------------------------------- Buffer, byte by byte
\* buf[i] of a Buffer (0-based); Undefined past the end
\* the value of an expression evaluated once: the element of a singleton
The(S) == CHOOSE x \in S : TRUE

Undefined == -1

at(buf, i) == IF i >= 0 /\ i < Len(buf) THEN buf[i + 1] ELSE Undefined

\* buf.slice(start, end), 0 <= start, 0 <= end
slice(buf, start, end) ==
    SubSeq(buf, start + 1, IF end < Len(buf) THEN end ELSE Len(buf))

\* x & mask of a byte that may be undefined (undefined & mask is 0)
Byte(x) == IF x = Undefined THEN 0 ELSE x

\* value of buf.readInt16BE(i); the caller checks i + 2 <= buf.length, past
\* which readInt16BE throws a RangeError
readInt16BE(buf, i) ==
    LET u == buf[i + 1] * 256 + buf[i + 2]
    IN IF u >= 32768 THEN u - 65536 ELSE u

\* value of buf.readUint32BE(i); RangeError unless i + 4 <= buf.length
readUint32BE(buf, i) ==
    ((buf[i + 1] * 256 + buf[i + 2]) * 256 + buf[i + 3]) * 256 + buf[i + 4]

_getResponseCommandCode(byte10, byte11) ==
    padStart(toString16(byte10), 2) \o padStart(toString16(byte11), 2)

\* keys of constants.Commands
KnownCodes == {CommandCode(m) : m \in Methods}

\* ------------------------------------------- the per-command reply parsers
\* A parser returns the response (sid, the sequence it belongs to, values)
\* or throws; whatever it throws is caught by receive.
Threw == [thrown |-> TRUE, sid |-> 0, seq |-> 0, values |-> <<>>,
          endCode |-> "none"]

Parsed(sid, seq, values) ==
    [thrown |-> FALSE, sid |-> sid, seq |-> seq, values |-> values,
     endCode |-> "none"]

\* _initialProcessing: sequenceManager.maxSID and .minSID are undefined, so
\* of the three SID tests only !seq can be true; its callers pass the
\* command code they were dispatched on, so the command-code test is never
\* true either.
_initialProcessingAnyCommand(buf, tbl, rq, fnName) ==
    LET sid == at(buf, 9)
        seq == get(tbl, sid)
    IN IF seq = 0 THEN Threw ELSE Parsed(sid, seq, <<>>)

_initialProcessing(buf, tbl, rq, fnName) ==
    LET sid == at(buf, 9)
        seq == get(tbl, sid)
    IN IF seq = 0 THEN Threw
       ELSE IF rq[seq].cmd # fnName THEN Threw
       ELSE Parsed(sid, seq, <<>>)

RECURSIVE readWords(_, _)
readWords(bufData, i) ==
    IF i >= Len(bufData) THEN <<>>
    ELSE <<readInt16BE(bufData, i)>> \o readWords(bufData, i + 2)

_processMemoryAreaRead(buf, tbl, rq) ==
    LET ip      == _initialProcessing(buf, tbl, rq, "read")
        bufData == slice(buf, 14, Len(buf))
        address == rq[ip.seq].address
    IN IF ip.thrown THEN Threw
       ELSE IF address = <<>> THEN ip
       ELSE IF address[1].isBitAddress THEN [ip EXCEPT !.values = bufData]
       ELSE IF Len(bufData) % 2 = 1 THEN Threw      \* readInt16BE RangeError
       ELSE [ip EXCEPT !.values = readWords(bufData, 0)]

\* the loop of _processMultipleMemoryAreaRead: it runs while bytes are left
\* in the body, not while addresses are left in the request
RECURSIVE readItems(_, _, _)
readItems(bufData, i, memoryAddressList) ==
    IF i >= Len(bufData) THEN [thrown |-> FALSE, data |-> <<>>]
    ELSE IF memoryAddressList = <<>>
            \/ Head(memoryAddressList).memoryAreaCode # bufData[i + 1]
    THEN [thrown |-> TRUE, data |-> <<>>]
    ELSE IF Head(memoryAddressList).isBitAddress
    THEN LET rest == readItems(bufData, i + 2, Tail(memoryAddressList))
         IN [rest EXCEPT !.data = <<at(bufData, i + 1)>> \o @]
    ELSE IF i + 3 > Len(bufData)
    THEN [thrown |-> TRUE, data |-> <<>>]             \* readInt16BE RangeError
    ELSE LET rest == readItems(bufData, i + 3, Tail(memoryAddressList))
         IN [rest EXCEPT !.data = <<readInt16BE(bufData, i + 1)>> \o @]

_processMultipleMemoryAreaRead(buf, tbl, rq) ==
    LET ip    == _initialProcessing(buf, tbl, rq, "read-multiple")
        items == readItems(slice(buf, 14, Len(buf)), 0, rq[ip.seq].address)
    IN IF ip.thrown THEN Threw
       ELSE IF items.thrown THEN Threw
       ELSE [ip EXCEPT !.values = items.data]

\* buf.readInt16BE(22) is the last read: 24 bytes are needed
StatusReadLength == 24

_processStatusRead(buf, tbl, rq) ==
    LET ip == _initialProcessing(buf, tbl, rq, "status")
    IN IF ip.thrown THEN Threw
       ELSE IF Len(buf) < StatusReadLength THEN Threw   \* RangeError
       ELSE ip

\* data.slice(80, 92).readUInt16BE(10) is the furthest read: 14 + 92 bytes
CpuUnitDataReadLength == 106

_processCpuUnitDataRead(buf, tbl, rq) ==
    LET ip == _initialProcessing(buf, tbl, rq, "cpu-unit-data-read")
    IN IF ip.thrown THEN Threw
       ELSE IF Len(buf) < CpuUnitDataReadLength THEN Threw   \* RangeError
       ELSE ip

\* constants.Commands[cmdCode].name is a TypeError for a code not in the table
_processDefault(buf, tbl, rq) ==
    LET cmdCode == _getResponseCommandCode(at(buf, 10), at(buf, 11))
    IN IF cmdCode \notin KnownCodes THEN Threw
       ELSE _initialProcessing(buf, tbl, rq, CommandName(cmdCode))

_processReply(buf, tbl, rq) ==
    IF at(buf, 10) = Undefined \/ at(buf, 11) = Undefined
    THEN Threw                    \* undefined.toString(16)
    ELSE
    LET responseCommandCode == _getResponseCommandCode(at(buf, 10), at(buf, 11))
        processEndCode == _processEndCode(Byte(at(buf, 12)), Byte(at(buf, 13)))
        processResult ==
            CASE responseCommandCode = "0601" -> _processStatusRead(buf, tbl, rq)
              [] responseCommandCode = "0501" -> _processCpuUnitDataRead(buf, tbl, rq)
              [] responseCommandCode = "0101" -> _processMemoryAreaRead(buf, tbl, rq)
              [] responseCommandCode = "0104" -> _processMultipleMemoryAreaRead(buf, tbl, rq)
              [] OTHER -> _processDefault(buf, tbl, rq)
    IN IF processResult.thrown THEN Threw
       ELSE [thrown |-> FALSE, sid |-> processResult.sid,
             seq |-> processResult.seq, values |-> processResult.values,
             endCode |-> processEndCode.endCode, code |-> responseCommandCode]

\* process(buffer) without sequenceManager.remove
processKeepSlot(st, c, buffer) ==
    The({IF response.thrown THEN [st EXCEPT !.thrown = TRUE]
         ELSE The({[st EXCEPT
                      !.reqs = [@ EXCEPT ![response.seq] = seq],
                      !.statistics = [@ EXCEPT !.replyCount = @ + 1],
                      !.emitted = Append(@,
                          IF seq.cb
                          THEN Ev("callback", seq.client, "none", response.seq,
                                  seq, response.sid, response.code)
                          ELSE Ev("reply", c, "none", response.seq, seq,
                                  response.sid, response.code))] :
                   seq \in {[st.reqs[response.seq] EXCEPT
                               !.complete = TRUE, !.timer = FALSE,
                               !.response = [endCode |-> response.endCode,
                                             values |-> response.values]]}}) :
         response \in {_processReply(buffer, st.sequences, st.reqs)}})

\* ------------------- process(buffer) inside receive, on the state st the
\* handler has reached: done, get, seq.response, callback or 'reply', remove
process(st, c, buffer) ==
    The({IF response.thrown THEN [st EXCEPT !.thrown = TRUE]
         ELSE The({[st EXCEPT
                      !.reqs = [@ EXCEPT ![response.seq] = seq],
                      !.statistics = [@ EXCEPT !.replyCount = @ + 1],
                      !.emitted = Append(@,
                          IF seq.cb
                          THEN Ev("callback", seq.client, "none", response.seq,
                                  seq, response.sid, response.code)
                          ELSE Ev("reply", c, "none", response.seq, seq,
                                  response.sid, response.code)),
                      !.sequences = [x \in DOMAIN @ \ {response.sid} |-> @[x]]] :
                   seq \in {[st.reqs[response.seq] EXCEPT
                               !.complete = TRUE, !.timer = FALSE,
                               !.response = [endCode |-> response.endCode,
                                             values |-> response.values]]}}) :
         response \in {_processReply(buffer, st.sequences, st.reqs)}})

\* magic "FINS"
FINS == <<70, 73, 78, 83>>

\* the while loop of receive in TCP mode, from `offset` on
RECURSIVE tcpLoop(_, _, _, _)
tcpLoop(st, c, buf, offset) ==
    IF offset >= Len(buf) THEN st
    ELSE IF offset + 16 > Len(buf)
    THEN [st EXCEPT !.thrown = TRUE]        \* readUint32BE RangeError
    ELSE IF slice(buf, offset, offset + 4) # FINS
    THEN [st EXCEPT !.thrown = TRUE]        \* "Expected FINS magic packet"
    ELSE IF readUint32BE(buf, offset + 12) # 0
    THEN [st EXCEPT !.thrown = TRUE]        \* TCPCommandErrorCodes[err]
    ELSE The({IF st1.thrown THEN st1
              ELSE tcpLoop(st1, c, buf, offset + readUint32BE(buf, offset + 4) + 8) :
              st1 \in {process(st, c, slice(buf, offset + 16,
                             offset + readUint32BE(buf, offset + 4) + 8))}})

\* the state a handler starts from
HandlerState ==
    [sequences |-> sequences, reqs |-> reqs, statistics |-> statistics,
     emitted |-> <<>>, thrown |-> FALSE]

\* ------------------- receive(buf, rinfo): the transport's data listener
\* once the client is ready, for a datagram or a TCP read `buf`
receive(c, buf) ==
    /\ ~crashed
    /\ constructed[c]
    /\ socket[c]
    /\ conn[c].onData = "receive"
    /\ \E st1 \in {IF conn[c].protocol = "tcp"
                    THEN tcpLoop(HandlerState, c, buf, 0)
                    ELSE process(HandlerState, c, buf)} :
       /\ sequences' = st1.sequences
       /\ statistics' = st1.statistics
       /\ reqs' = Collect(st1.reqs, st1.sequences)
       \* catch (error) { self.emit('error', error) }
       /\ emitted' = IF st1.thrown
                     THEN Append(st1.emitted,
                                 Ev("error", c, "protocol", 0, NoSeq, 0, "none"))
                     ELSE st1.emitted
    /\ UNCHANGED <<constructed, headerSID, socket, max_queue, timeout,
                   mgrCallback, mgrTimeoutMS, immediates, nextRid, submitted,
                   crashed, conn, rx>>

\* ------------------- tcp_init_receive(data): the data listener of a TCP
\* client until the node-number handshake has been answered
HandshakeLength == 24

tcp_init_receive(c, data) ==
    /\ ~crashed
    /\ constructed[c]
    /\ socket[c]
    /\ conn[c].onData = "tcp_init_receive"
    /\ IF Len(data) # HandshakeLength THEN
          \* error(new Error("Initial response is invalid - expected 24 bytes"))
          /\ emitted' = <<Ev("error", c, "protocol", 0, NoSeq, 0, "none")>>
          /\ conn' = conn
       ELSE IF slice(data, 0, 4) # FINS THEN
          \* the node numbers are stored before the magic is compared
          /\ emitted' = <<Ev("error", c, "protocol", 0, NoSeq, 0, "none")>>
          /\ conn' = [conn EXCEPT ![c].client_node_no = at(data, 19),
                                  ![c].server_node_no = at(data, 23)]
       ELSE
          \* off("data", tcp_init_receive); on("data", receive); listening()
          /\ emitted' = <<Ev("open", c, "none", 0, NoSeq, 0, "none")>>
          /\ conn' = [conn EXCEPT ![c].client_node_no = at(data, 19),
                                  ![c].server_node_no = at(data, 23),
                                  ![c].onData = "receive",
                                  ![c].connected = TRUE]
    /\ UNCHANGED <<constructed, headerSID, socket, max_queue, timeout, sequences,
                   statistics, mgrCallback, mgrTimeoutMS, reqs, immediates,
                   nextRid, submitted, crashed, rx>>

\* the socket hands the first n bytes of the stream to the data listener
TcpRead(c, n) ==
    /\ conn[c].protocol = "tcp"
    /\ n \in 1..Len(stream)
    /\ \/ tcp_init_receive(c, SubSeq(stream, 1, n))
       \/ receive(c, SubSeq(stream, 1, n))
    /\ stream' = SubSeq(stream, n + 1, Len(stream))

\* a UDP datagram arrives
Datagram(c, buf) ==
    /\ conn[c].protocol = "udp"
    /\ receive(c, buf)
    /\ UNCHANGED stream

\* ------------------- SequenceManager.close: remove(_SID) for
\* _SID = minSID; _SID < maxSID
closeLoop == MinSID .. (MaxSID - 1)

Mark(rq, c, how) ==
    [r \in DOMAIN rq |->
        IF rq[r].client = c /\ rq[r].stale = "no"
        THEN [rq[r] EXCEPT !.stale = how] ELSE rq[r]]

\* ------------------- FinsClient.prototype.close
Close(c) ==
    /\ ~crashed
    /\ constructed[c]
    /\ LET removed == {s \in DOMAIN sequences : s \in closeLoop}
           tbl1 == [s \in DOMAIN sequences \ removed |-> sequences[s]]
           rq1  == [r \in DOMAIN reqs |->
                       IF \E s \in removed : sequences[s] = r
                       THEN [reqs[r] EXCEPT !.timer = FALSE] ELSE reqs[r]]
       IN
       /\ sequences' = tbl1
       /\ reqs' = Collect(Mark(rq1, c, "closed"), tbl1)
    /\ socket' = [socket EXCEPT ![c] = FALSE]
    /\ emitted' = <<Ev("close", c, "none", 0, NoSeq, 0, "none")>>
    /\ conn' = [conn EXCEPT ![c].connected = FALSE]
    /\ UNCHANGED <<constructed, headerSID, max_queue, timeout, statistics,
                   mgrCallback, mgrTimeoutMS, immediates, nextRid, submitted,
                   crashed, rx, stream>>

\* ------------------- FinsClient.prototype.init: SequenceManager(...) assigns
\* fresh statistics, callback, options and sequences on the global object; the
\* sequence objects of the old table are not visited
init(c, t, how) ==
    /\ timeout' = [timeout EXCEPT ![c] = t]
    /\ max_queue' = [max_queue EXCEPT ![c] = MaxQueue]
    /\ statistics' = ZeroStatistics
    /\ mgrCallback' = c
    /\ mgrTimeoutMS' = t
    /\ sequences' = EmptyFn
    /\ reqs' = Collect(Mark(reqs, c, how), EmptyFn)
    /\ socket' = [socket EXCEPT ![c] = TRUE]
    /\ headerSID' = [headerSID EXCEPT ![c] = 0]
    /\ conn' = [conn EXCEPT ![c] = [@ EXCEPT
                   !.onData = IF conn[c].protocol = "tcp" THEN "tcp_init_receive"
                              ELSE "receive",
                   !.connected = FALSE]]
    /\ emitted' = <<Ev("initialised", c, "none", 0, NoSeq, 0, "none")>>

\* new FinsClient(port, host, {timeout: t})
Construct(c) ==
    /\ ~crashed
    /\ ~constructed[c]
    /\ \E t \in TimeoutOptions : init(c, t, "no")
    /\ constructed' = [constructed EXCEPT ![c] = TRUE]
    /\ UNCHANGED <<immediates, nextRid, submitted, crashed, rx, stream>>

\* FinsClient.prototype.reconnect
Reconnect(c) ==
    /\ ~crashed
    /\ constructed[c]
    /\ init(c, timeout[c], "reconnected")
    /\ UNCHANGED <<constructed, immediates, nextRid, submitted, crashed, rx, stream>>

\* ------------------------------------------------------------------- Next
\* one client, A, and its PLC
Next ==
    \/ Submit("A")
    \/ RunImmediate
    \/ \E rid \in DOMAIN reqs, ok \in BOOLEAN : SendDone(rid, ok)
    \/ \E rid \in DOMAIN reqs : Timeout(rid)
    \/ Reply("A")
    \/ Close("A")
    \/ Reconnect("A")

Spec == Init /\ [][Next]_vars
\* ------------------------------------------------ other environments
\* SpecCall: one client, every command method, also through command(), with
\* well-formed and malformed arguments.
SubmitAny(c) ==
    \E viaCommand \in BOOLEAN, m \in Methods, cb \in BOOLEAN, argOk \in BOOLEAN :
        SubmitCall(c, viaCommand, m, cb, argOk, MaxCallSubmit)

\* direct calls with an argument the method has to refuse
SubmitInvalid(c) ==
    \E m \in Methods, cb \in BOOLEAN :
        \E arg \in ArgKinds(m) \ {"ok"} :
            SubmitArgs(c, FALSE, m, cb, arg, DefaultAddress(m), MaxCallSubmit)

CommandInvalid(c) ==
    \E cb \in BOOLEAN, check \in CommandChecks : commandRejected(c, cb, check)

NextCall ==
    \/ SubmitAny("A")
    \/ SubmitInvalid("A")
    \/ CommandInvalid("A")
    \/ RunImmediate
    \/ \E rid \in DOMAIN reqs : Timeout(rid)
    \/ Reply("A")

SpecCall == Init /\ [][NextCall]_vars

\* SpecSeq: one client whose caller waits for each request to end before it
\* submits the next, a transport that accepts every frame and a PLC that
\* answers before the timer expires; long enough for the SID to wrap.
Live(rid) == ~Terminal(reqs[rid]) /\ reqs[rid].stale = "no"

SubmitSeq ==
    /\ immediates = <<>>
    /\ \A rid \in DOMAIN reqs : ~Live(rid) /\ ~reqs[rid].sending
    /\ \E cb \in BOOLEAN : SubmitCall("A", FALSE, "status", cb, TRUE, MaxSeqSubmit)

TimeoutLate == \E rid \in DOMAIN reqs : reqs[rid].stale # "no" /\ Timeout(rid)

NextSeq ==
    \/ SubmitSeq
    \/ RunImmediate
    \/ \E rid \in DOMAIN reqs : SendDone(rid, TRUE)
    \/ Reply("A")
    \/ Close("A")
    \/ TimeoutLate

SpecSeq == Init /\ [][NextSeq]_vars

\* SpecBurst: one client whose caller submits in a loop within one tick; the
\* PLC is silent.
SubmitBurst == SubmitCall("A", FALSE, "status", FALSE, TRUE, MaxBurstSubmit)

NextBurst ==
    \/ SubmitBurst
    \/ RunImmediate

SpecBurst == Init /\ [][NextBurst]_vars

\* SpecTwo: a second client B is constructed in the same process.
SubmitTwo(c) ==
    \E cb \in BOOLEAN : SubmitCall(c, FALSE, "read", cb, TRUE, MaxTwoSubmit)

NextTwo ==
    \/ \E c \in Clients : SubmitTwo(c)
    \/ RunImmediate
    \/ \E rid \in DOMAIN reqs : SendDone(rid, TRUE)
    \/ \E rid \in DOMAIN reqs : Timeout(rid)
    \/ \E c \in Clients : Reply(c)
    \/ Construct("B")
    \/ Close("B")
    \/ Reconnect("B")

SpecTwo == Init /\ [][NextTwo]_vars

\* SpecLive: one client that is neither closed nor reconnected.  The event
\* loop runs every queued setImmediate callback, calls every socket.send
\* callback and fires every armed timer; the PLC may stay silent.
SubmitLive ==
    \E m \in LifecycleMethods, cb \in BOOLEAN :
        SubmitCall("A", FALSE, m, cb, TRUE, MaxLiveSubmit)

NextLive ==
    \/ SubmitLive
    \/ RunImmediate
    \/ \E rid \in DOMAIN reqs, ok \in BOOLEAN : SendDone(rid, ok)
    \/ \E rid \in DOMAIN reqs : Timeout(rid)
    \/ Reply("A")

SpecLive ==
    /\ Init
    /\ [][NextLive]_vars
    /\ WF_vars(RunImmediate)
    /\ \A rid \in 1..MaxLiveSubmit :
          /\ WF_vars(\E ok \in BOOLEAN : SendDone(rid, ok))
          /\ WF_vars(Timeout(rid))

\* SpecEndCode: the end-code decoder applied to any two bytes.
InitEndCode ==
    /\ Idle
    /\ \E hiByte \in 0..MaxByte, loByte \in 0..MaxByte :
          rx = [fn |-> "_processEndCode", in |-> <<hiByte, loByte>>, out |-> <<>>]

DecodeEndCode ==
    /\ rx.fn = "_processEndCode"
    /\ rx.out = <<>>
    /\ rx' = [rx EXCEPT !.out = <<_processEndCode(rx.in[1], rx.in[2])>>]
    /\ UNCHANGED clientVars

NextEndCode == DecodeEndCode

SpecEndCode == InitEndCode /\ [][NextEndCode]_vars

\* SpecReply: one UDP client and a PLC (or anything else on the network)
\* whose datagrams carry any SID, any of a few command codes, end code 0000
\* or not, and a body that is whole, short or missing.
CodeBytes(code) ==
    CASE code = "0101" -> <<1, 1>> [] code = "0102" -> <<1, 2>>
      [] code = "0103" -> <<1, 3>> [] code = "0104" -> <<1, 4>>
      [] code = "0105" -> <<1, 5>> [] code = "0401" -> <<4, 1>>
      [] code = "0402" -> <<4, 2>> [] code = "0501" -> <<5, 1>>
      [] code = "0601" -> <<6, 1>>
      [] OTHER -> <<153, 153>>

\* ICF .. SA2 of a response header
ResponseHeader == <<192, 0, 2, 0, 0, 0, 0, 0, 0>>

Frame(sid, code, endCode, body) ==
    ResponseHeader \o <<sid>> \o CodeBytes(code) \o endCode \o body

\* 0000 normal completion, 0401 undefined command
EndCodes == {<<0, 0>>, <<4, 1>>}

Zeros(n) == [i \in 1..n |-> 0]

Bodies(code) ==
    CASE code = "0101" -> {<<>>, <<0, 10>>, <<0, 10, 0>>, <<1>>}
      [] code = "0104" -> {<<>>, <<130, 0, 10, 2, 1>>, <<130, 0, 10>>,
                           <<130, 0, 10, 2>>, <<130, 0>>, <<176, 0, 10, 2, 1>>}
      [] code = "0601" -> {<<>>, Zeros(10)}
      [] OTHER -> {<<>>}

Datagrams ==
    {Frame(sid, code, endCode, body) :
        sid \in FrameSIDs, code \in FrameCodes \cup {"9999"},
        endCode \in EndCodes, body \in UNION {Bodies(k) : k \in FrameCodes}}

SubmitReply ==
    \/ \E cb \in BOOLEAN, address \in {<<AddrD>>, <<AddrDBit>>} :
          SubmitArgs("A", FALSE, "read", cb, "ok", address, MaxReplySubmit)
    \/ \E cb \in BOOLEAN :
          SubmitArgs("A", FALSE, "read-multiple", cb, "ok", <<AddrD, AddrDBit>>,
                     MaxReplySubmit)
    \/ \E cb \in BOOLEAN, m \in {"write", "status"} :
          SubmitArgs("A", FALSE, m, cb, "ok", DefaultAddress(m), MaxReplySubmit)

NextReply ==
    \/ SubmitReply
    \/ RunImmediate
    \/ \E rid \in DOMAIN reqs : SendDone(rid, TRUE)
    \/ \E rid \in DOMAIN reqs : Timeout(rid)
    \/ \E buf \in Datagrams : Datagram("A", buf)

SpecReply == Init /\ [][NextReply]_vars

\* ======================================================================
\* FinsAddressUtil.  An address string is a sequence of one-character
\* strings, so that the regular expressions can be followed character by
\* character.
UpperChars ==
    {"A", "B", "C", "D", "E", "F", "G", "H", "I", "J", "K", "L", "M", "N", "O",
     "P", "Q", "R", "S", "T", "U", "V", "W", "X", "Y", "Z"}

DigitChars == <<"0", "1", "2", "3", "4", "5", "6", "7", "8", "9">>

DigitValue(ch) == (CHOOSE i \in 1..10 : DigitChars[i] = ch) - 1

\* the characters of a sequence as one string
RECURSIVE join(_)
join(chars) == IF chars = <<>> THEN "" ELSE Head(chars) \o join(Tail(chars))

\* Number(digits) and parseInt(digits) of a run of digits; Number("") is 0
RECURSIVE Number(_)
Number(digits) ==
    IF digits = <<>> THEN 0
    ELSE Number(SubSeq(digits, 1, Len(digits) - 1)) * 10
            + DigitValue(digits[Len(digits)])

\* String(n) of a non-negative integer
RECURSIVE decimal(_)
decimal(n) ==
    IF n < 10 THEN DigitChars[n + 1]
    ELSE decimal(n \div 10) \o DigitChars[(n % 10) + 1]

\* length of the longest run of characters of `set` from position `from`
\* (0-based) on: a greedy [set]*
run(str, from, set) ==
    IF \A i \in (from + 1)..Len(str) : str[i] \in set THEN Len(str) - from
    ELSE (CHOOSE i \in (from + 1)..Len(str) :
              /\ str[i] \notin set
              /\ \A k \in (from + 1)..(i - 1) : str[k] \in set) - from - 1

\* ([0-9]*)\.?([0-9]*) from position `from` on, after the area `area`
offsetAndBit(str, from, area) ==
    LET n2   == run(str, from, Range(DigitChars))
        dot  == IF from + n2 < Len(str) /\ str[from + n2 + 1] = "."
                THEN 1 ELSE 0
        n3   == run(str, from + n2 + dot, Range(DigitChars))
        bit  == slice(str, from + n2 + dot, from + n2 + dot + n3)
    IN [thrown |-> FALSE,
        MemoryArea |-> join(area),
        Address |-> Number(slice(str, from, from + n2)),
        \* Bit is a number only when matches[3] is not empty
        isBitAddress |-> bit # <<>>,
        Bit |-> Number(bit)]

\* stringToAddress: neither expression is anchored.  /([A-Z]*)([0-9]*).../
\* always matches at position 0; /(.+)_([0-9]*).../ matches when a "_"
\* stands after at least one character, (.+) running up to the last "_",
\* and otherwise `matches` is null and matches[1] is a TypeError.
stringToAddress(addressString) ==
    IF "_" \in Range(addressString)
    THEN LET last == CHOOSE i \in 1..Len(addressString) :
                        /\ addressString[i] = "_"
                        /\ \A k \in (i + 1)..Len(addressString) :
                              addressString[k] # "_"
         IN IF last = 1
            THEN [thrown |-> TRUE, MemoryArea |-> "", Address |-> 0,
                  isBitAddress |-> FALSE, Bit |-> 0]
            ELSE offsetAndBit(addressString, last,
                              SubSeq(addressString, 1, last - 1))
    ELSE offsetAndBit(addressString, run(addressString, 0, UpperChars),
                      SubSeq(addressString, 1, run(addressString, 0, UpperChars)))

\* constants.CSCJ_MODE_BIT_MemoryAreas
CSCJ_MODE_BIT_MemoryAreas ==
    "E0" :> 32 @@ "E1" :> 33 @@ "E2" :> 34 @@ "E3" :> 35 @@ "E4" :> 36 @@
    "E5" :> 37 @@ "E6" :> 38 @@ "E7" :> 39 @@ "E8" :> 40 @@ "E9" :> 41 @@
    "EA" :> 42 @@ "EB" :> 43 @@ "EC" :> 44 @@ "EE" :> 45 @@ "EF" :> 46 @@
    "E10" :> 96 @@ "E11" :> 225 @@ "E12" :> 226 @@ "E13" :> 227 @@
    "E14" :> 228 @@ "E15" :> 229 @@ "E16" :> 230 @@ "E17" :> 231 @@
    "E18" :> 232 @@ "T" :> 9 @@ "C" :> 9 @@ "CIO" :> 48 @@ "W" :> 49 @@
    "H" :> 50 @@ "A" :> 51 @@ "D" :> 2

\* constants.CSCJ_MODE_WD_MemoryAreas
CSCJ_MODE_WD_MemoryAreas ==
    "E0" :> 160 @@ "E1" :> 161 @@ "E2" :> 162 @@ "E3" :> 163 @@
    "E4" :> 164 @@ "E5" :> 165 @@ "E6" :> 166 @@ "E7" :> 167 @@
    "E8" :> 168 @@ "E9" :> 169 @@ "EA" :> 170 @@ "EB" :> 171 @@
    "EC" :> 172 @@ "EE" :> 173 @@ "EF" :> 174 @@ "E10" :> 96 @@
    "E11" :> 97 @@ "E12" :> 98 @@ "E13" :> 99 @@ "E14" :> 100 @@
    "E15" :> 101 @@ "E16" :> 102 @@ "E17" :> 103 @@ "E18" :> 104 @@
    "T" :> 137 @@ "C" :> 137 @@ "CIO" :> 176 @@ "W" :> 177 @@ "H" :> 178 @@
    "A" :> 179 @@ "D" :> 130 @@ "IR" :> 220 @@ "DR" :> 188

\* CalculateMemoryAreaAddress of the two tables, without the additions
CalculateMemoryAreaAddressPlain(isBit, memoryArea, memoryAddress) ==
    (IF isBit THEN 16 ELSE 1) * memoryAddress

\* CalculateMemoryAreaAddress of the bit table (isBit) and the word table
CalculateMemoryAreaAddress(isBit, memoryArea, memoryAddress) ==
    (IF isBit THEN 16 ELSE 1) * memoryAddress
        + (CASE memoryArea = "A" /\ memoryAddress > 447 -> 448   \* 0x01C0
             [] memoryArea = "C" -> 32768                         \* 0x8000
             [] OTHER -> 0)

\* wordsToBytes([w]): (w & 0xff00) >> 8, w & 0x00ff
wordsToBytes(w) == <<(w \div 256) % 256, w % 256>>

\* addressToBytes: <<>> stands for the null returned for an unknown area
addressToBytes(decodedMemoryAddress) ==
    LET memAreas == IF decodedMemoryAddress.isBitAddress
                    THEN CSCJ_MODE_BIT_MemoryAreas
                    ELSE CSCJ_MODE_WD_MemoryAreas
    IN IF decodedMemoryAddress.MemoryArea \notin DOMAIN memAreas THEN <<>>
       ELSE <<memAreas[decodedMemoryAddress.MemoryArea]>>
            \o wordsToBytes(CalculateMemoryAreaAddress(
                   decodedMemoryAddress.isBitAddress,
                   decodedMemoryAddress.MemoryArea,
                   decodedMemoryAddress.Address))
            \o <<IF decodedMemoryAddress.isBitAddress
                  THEN decodedMemoryAddress.Bit ELSE 0>>

addressToString(decodedMemoryAddress, offsetWD, offsetBit) ==
    IF decodedMemoryAddress.isBitAddress
    THEN decodedMemoryAddress.MemoryArea
            \o decimal(decodedMemoryAddress.Address + offsetWD)
            \o "." \o decimal(decodedMemoryAddress.Bit + offsetBit)
    ELSE decodedMemoryAddress.MemoryArea
            \o decimal(decodedMemoryAddress.Address + offsetWD)

\* SpecTcp: client A over TCP.  The peer answers the handshake, well or
\* badly, and then writes FINS envelopes, one or two at a time; the socket
\* hands the bytes over in reads of any of a few sizes.
TcpConn == [NoConn EXCEPT !.protocol = "tcp", !.onData = "tcp_init_receive"]

InitTcp ==
    /\ IdleWith([c \in Clients |-> IF c = "A" THEN TcpConn ELSE NoConn])
    /\ rx = NoRx

\* 4-byte big-endian length, command or error field of an envelope
Uint32(n) == <<0, 0, n \div 256, n % 256>>

Envelope(frame) ==
    FINS \o Uint32(8 + Len(frame)) \o Uint32(2) \o Uint32(0) \o frame

\* handshake replies: well formed (client node 5, server node 9), one with
\* the wrong magic, one a byte short
HandshakeReply(magic, length) ==
    SubSeq(magic \o Uint32(16) \o Uint32(1) \o Uint32(0) \o Uint32(5)
                 \o Uint32(9), 1, length)

HandshakeReplies ==
    {HandshakeReply(FINS, 24), HandshakeReply(<<70, 73, 78, 88>>, 24),
     HandshakeReply(FINS, 23)}

\* a whole response to a request in the table, or a response with SID 0
TcpFrames ==
    {Frame(sid, CommandCode(reqs[sequences[sid]].cmd), <<0, 0>>,
           IF reqs[sequences[sid]].cmd = "read" THEN <<0, 10>> ELSE <<>>) :
        sid \in DOMAIN sequences}
    \cup {Frame(0, "0102", <<0, 0>>, <<>>)}

PeerWrites ==
    /\ ~crashed
    /\ conn["A"].protocol = "tcp"
    /\ stream = <<>>
    /\ IF conn["A"].onData = "tcp_init_receive"
       THEN \E data \in HandshakeReplies : stream' = data
       ELSE \/ \E f \in TcpFrames : stream' = Envelope(f)
            \/ \E f1 \in TcpFrames, f2 \in TcpFrames :
                  f1 # f2 /\ stream' = Envelope(f1) \o Envelope(f2)
    /\ UNCHANGED <<constructed, headerSID, socket, max_queue, timeout, sequences,
                   statistics, mgrCallback, mgrTimeoutMS, reqs, immediates,
                   nextRid, submitted, emitted, crashed, conn, rx>>

ReadSizes == {4, 20, 31, Len(stream)}

SubmitTcp ==
    \E m \in LifecycleMethods, cb \in BOOLEAN :
        SubmitArgs("A", FALSE, m, cb, "ok", DefaultAddress(m), MaxTcpSubmit)

NextTcp ==
    \/ SubmitTcp
    \/ RunImmediate
    \/ \E rid \in DOMAIN reqs : SendDone(rid, TRUE)
    \/ PeerWrites
    \/ \E n \in ReadSizes : TcpRead("A", n)

SpecTcp == InitTcp /\ [][NextTcp]_vars
\* SpecAddress: an address string is parsed, and the parsed address is then
\* rendered or encoded.  The strings are an area, an offset, a bit part and
\* a tail, each of which may be missing or malformed.
AreaInputs ==
    {<<"D">>, <<"C">>, <<"A">>, <<"C", "I", "O">>, <<"I", "R">>,
     <<"E", "1", "_">>, <<"Q">>, <<"d">>, <<"_">>, <<>>}

OffsetInputs ==
    {<<>>, <<"5">>, <<"5", "0">>, <<"1", "0", "0">>, <<"2", "0", "0">>,
     <<"4", "4", "8">>, <<"0", "5">>}

BitInputs == {<<>>, <<".", "3">>, <<".", "1", "5">>, <<".">>}

TailInputs == {<<>>, <<"x">>}

AddressInputs ==
    {a \o o \o b \o t :
        a \in AreaInputs, o \in OffsetInputs, b \in BitInputs, t \in TailInputs}
    \ {<<>>}

InitAddress ==
    /\ Idle
    /\ \E addressString \in AddressInputs :
          rx = [fn |-> "stringToAddress", in |-> addressString, out |-> <<>>]

ParseAddress ==
    /\ rx.fn = "stringToAddress"
    /\ rx.out = <<>>
    /\ rx' = [rx EXCEPT !.out = <<stringToAddress(rx.in)>>]
    /\ UNCHANGED clientVars

ParsedAddress == rx.fn = "stringToAddress" /\ Len(rx.out) = 1 /\ ~rx.out[1].thrown

RenderAddress ==
    /\ ParsedAddress
    /\ rx' = [fn |-> "addressToString", in |-> rx.in,
              out |-> <<rx.out[1], addressToString(rx.out[1], 0, 0)>>]
    /\ UNCHANGED clientVars

EncodeAddress ==
    /\ ParsedAddress
    /\ rx' = [fn |-> "addressToBytes", in |-> rx.in,
              out |-> <<rx.out[1], addressToBytes(rx.out[1])>>]
    /\ UNCHANGED clientVars

NextAddress == ParseAddress \/ RenderAddress \/ EncodeAddress

SpecAddress == InitAddress /\ [][NextAddress]_vars

\* SpecWide: as SpecAddress, for well-formed addresses whose offsets go up
\* to and beyond what sixteen bits hold.
WideOffsetInputs ==
    {<<"0">>, <<"5">>, <<"4", "0", "9", "5">>, <<"4", "0", "9", "6">>,
     <<"3", "2", "7", "6", "7">>, <<"3", "2", "7", "6", "8">>,
     <<"6", "5", "5", "3", "5">>, <<"6", "5", "5", "3", "6">>}

WideAddressInputs ==
    {a \o o \o b :
        a \in {<<"D">>, <<"C">>, <<"A">>, <<"W">>, <<"C", "I", "O">>},
        o \in WideOffsetInputs, b \in {<<>>, <<".", "0">>, <<".", "3">>}}

InitWide ==
    /\ Idle
    /\ \E addressString \in WideAddressInputs :
          rx = [fn |-> "stringToAddress", in |-> addressString, out |-> <<>>]

SpecWide == InitWide /\ [][NextAddress]_vars

\* SpecReuse: one client submits one request after another until the SID
\* counter has wrapped; the first request may fail to send or time out, the
\* others are answered.
NextReuse ==
    \/ SubmitSeq
    \/ RunImmediate
    \/ \E rid \in DOMAIN reqs : SendDone(rid, TRUE)
    \/ SendDone(1, FALSE)      \* the first request
    \/ Timeout(1)
    \/ Reply("A")

SpecReuse == Init /\ [][NextReuse]_vars

\* ======================================================================
\* SpecFrame: the header of a request and the packet written for it.  A TCP
\* client whose handshake is done is constructed with some DNA, DA1 and DA2
\* options; a command method mints a header with or without per-call
\* overrides, and the deferred _transmitCommand closure writes the frame of
\* a write() of some number of words.
MaxHeaderCalls == 2

DefaultFinsHeader ==
    [ICF |-> 128, RSV |-> 0, GCT |-> 2, DNA |-> 0, DA1 |-> 0, DA2 |-> 0,
     SNA |-> 0, SA1 |-> 0, SA2 |-> 0, SID |-> 0]

\* a || b on numbers and undefined
Or(a, b) == IF a = Undefined \/ a = 0 THEN b ELSE a

\* self.header.build(DNA, DA1, DA2, SID), `this` being the client's header
build(this, DNA, DA1, DA2, SID) ==
    <<this.ICF, this.RSV, this.GCT, Or(DNA, this.DNA), Or(DA1, this.DA1),
      Or(DA2, this.DA2), this.SNA, this.SA1, this.SA2, Or(SID, this.SID)>>

\* a value stored into a Buffer element
Uint8(v) == IF v = Undefined THEN 0 ELSE v % 256

\* the 16-byte envelope header of _transmitCommand for a frame `buffer`
fins_tcp_header(buffer) ==
    FINS \o <<0, 0, 0, Uint8(8 + Len(buffer))>> \o <<0, 0, 0, 2>>
         \o <<0, 0, 0, 0>>

\* what _transmitCommand hands to the transport for a frame `buffer`
transmitPacket(c, buffer) ==
    IF conn[c].protocol = "tcp"
    THEN fins_tcp_header(buffer)
         \o [buffer EXCEPT ![5] = Uint8(conn[c].server_node_no),
                           ![8] = Uint8(conn[c].client_node_no)]
    ELSE buffer

\* the frame of write(address, data): header, command 0102, address, word
\* count and two bytes per word
writeFrame(header, address, data) ==
    header \o <<1, 2>> \o addressToBytes(address) \o wordsToBytes(Len(data))
           \o Zeros(2 * Len(data))

\* constructor options DNA, DA1, DA2; per-call opts.DNA, opts.DA1, opts.DA2
NodeOptions == {0, 3}
OverrideOptions == {Undefined, 0, 7}
WordCounts == {1, 114, 115, 200}

ReadyTcpConn ==
    [NoConn EXCEPT !.protocol = "tcp", !.connected = TRUE,
                   !.client_node_no = 5, !.server_node_no = 9]

clientHeader ==
    [DefaultFinsHeader EXCEPT !.DNA = rx.in[1], !.DA1 = rx.in[2],
                              !.DA2 = rx.in[3], !.SID = headerSID["A"]]

InitFrame ==
    /\ IdleWith([c \in Clients |-> IF c = "A" THEN ReadyTcpConn ELSE NoConn])
    /\ \E DNA \in NodeOptions, DA1 \in NodeOptions, DA2 \in NodeOptions :
          rx = [fn |-> "header", in |-> <<DNA, DA1, DA2>>, out |-> <<>>]

\* self.header.next(options.DNA, options.DA1, options.DA2)
HeaderNext ==
    /\ rx.fn \in {"header", "header.next"}
    /\ headerSID["A"] < MaxHeaderCalls
    /\ \E DNA \in OverrideOptions, DA1 \in OverrideOptions,
          DA2 \in OverrideOptions :
          /\ headerSID' = [headerSID EXCEPT !["A"] = incrementSID(@)]
          /\ rx' = [fn |-> "header.next", in |-> rx.in,
                    out |-> <<<<DNA, DA1, DA2>>,
                              build(clientHeader, DNA, DA1, DA2,
                                    incrementSID(headerSID["A"]))>>]
    /\ UNCHANGED <<constructed, socket, max_queue, timeout, sequences,
                   statistics, mgrCallback, mgrTimeoutMS, reqs, immediates,
                   nextRid, submitted, emitted, crashed, conn, stream>>

\* the write of _transmitCommand for a write() of n words under the header
\* just minted
TransmitWrite ==
    /\ rx.fn = "header.next"
    /\ \E n \in WordCounts :
          \E buffer \in {writeFrame(rx.out[2],
                                     stringToAddress(<<"D", "1", "0", "0">>),
                                     Zeros(n))} :
             rx' = [fn |-> "_transmitCommand", in |-> rx.in,
                    out |-> <<buffer, transmitPacket("A", buffer)>>]
    /\ UNCHANGED clientVars

NextFrame == HeaderNext \/ TransmitWrite

SpecFrame == InitFrame /\ [][NextFrame]_vars

\* ======================================================================
\* Properties
\* ======================================================================
Deliveries == {"callback", "reply", "error", "timeout"}

\* a request the caller holds a SID for and that has neither ended nor been
\* dropped by close() / reconnect()
Pending(c) == {rid \in DOMAIN reqs : reqs[rid].client = c /\ Live(rid)}

FlagCount(s) == (IF s.complete THEN 1 ELSE 0) + (IF s.timeout THEN 1 ELSE 0)
                + (IF s.error THEN 1 ELSE 0)

\* C1: every submitted request that has not terminated has a SID in 1..254,
\* and no two such requests of a client hold the same SID.
C1_UniqueSIDs ==
    \A c \in Clients :
        /\ \A rid \in Pending(c) : reqs[rid].sid \in 1..254
        /\ Cardinality({reqs[rid].sid : rid \in Pending(c)}) = Cardinality(Pending(c))

\* C2: at most one of complete, timeout, error is ever set on a sequence, and
\* a sequence with one of them set has no armed timer.
C2_OneTerminalFlag ==
    /\ \A rid \in DOMAIN reqs :
          /\ FlagCount(reqs[rid]) <= 1
          /\ Terminal(reqs[rid]) => ~reqs[rid].timer
    /\ \A i \in DOMAIN emitted :
          /\ FlagCount(emitted[i].seq) <= 1
          /\ Terminal(emitted[i].seq) => ~emitted[i].seq.timer

\* C3: a reply delivered to a caller of a client (callback with a null error,
\* or the `reply` event) carries a SID that this client allocated before, for
\* a request whose command code is the response's command code.
C3_ReplyMatchesSubmission ==
    \A i \in DOMAIN emitted :
        (\/ emitted[i].kind = "reply"
         \/ emitted[i].kind = "callback" /\ emitted[i].err = "none")
        => \E p \in submitted[emitted[i].client] :
               /\ p[1] = emitted[i].seq.sid
               /\ p[1] = emitted[i].val
               /\ CommandCode(p[2]) = emitted[i].code

\* C4: a call of any command method while queueCount() >= max_queue returns
\* null, signals queue-full (callback "full" and/or the `full` event), does
\* not throw, and leaves the SID counter and the sequence table unchanged.
FullCall(c) ==
    /\ queueCount(c) >= max_queue[c]
    /\ \E viaCommand \in BOOLEAN, m \in Methods, cb \in BOOLEAN, argOk \in BOOLEAN :
          SubmitCall(c, viaCommand, m, cb, argOk, MaxCallSubmit)

C4_FullReturnsNull ==
    [][FullCall("A") =>
          /\ \A i \in DOMAIN emitted' : emitted'[i].kind # "throw"
          /\ \E i \in DOMAIN emitted' :
                emitted'[i].kind = "return" /\ emitted'[i].val = 0
          /\ \E i \in DOMAIN emitted' :
                \/ emitted'[i].kind = "full"
                \/ emitted'[i].kind = "callback" /\ emitted'[i].err = "full"
          /\ headerSID' = headerSID
          /\ sequences' = sequences
          /\ reqs' = reqs]_vars

\* C5: the number of admitted requests of a client that have not terminated
\* never exceeds max_queue.
C5_AdmittedWithinMaxQueue ==
    \A c \in Clients : Cardinality(Pending(c)) <= max_queue[c]

\* C6: the timeout of a request submitted without a callback is announced by
\* the `timeout` event.
C6_TimeoutEventEmitted ==
    \A i \in DOMAIN emitted :
        emitted[i].err = "timeout" /\ ~emitted[i].seq.cb
        => emitted[i].kind = "timeout"

\* C7: after close() no timer of a request submitted before it is armed, and
\* nothing is delivered for such a request.
C7_CloseCancelsAll ==
    /\ ~crashed => \A rid \in DOMAIN reqs :
                      reqs[rid].stale = "closed" => ~reqs[rid].timer
    /\ \A i \in DOMAIN emitted :
          emitted[i].kind \in Deliveries => emitted[i].seq.stale # "closed"

\* C8: after reconnect() the sequences pending before it are dropped: none of
\* their timers is armed and nothing is delivered for them.
C8_ReconnectDrops ==
    /\ \A rid \in DOMAIN reqs :
          reqs[rid].stale = "reconnected" /\ reqs[rid].phase = "registered"
          => ~reqs[rid].timer /\ rid \notin Range(sequences)
    /\ \A i \in DOMAIN emitted :
          emitted[i].kind \in Deliveries => emitted[i].seq.stale # "reconnected"

\* C9: an operation on client B leaves A's sequence table, statistics, timeout
\* option and error callback unchanged, and delivers nothing for a request
\* of A.
BStep ==
    \/ Construct("B")
    \/ SubmitTwo("B")
    \/ Reply("B")
    \/ Close("B")
    \/ Reconnect("B")

TableOf(c) ==
    {<<s, reqs[sequences[s]]>> : s \in {x \in DOMAIN sequences :
                                          reqs[sequences[x]].client = c}}

C9_ClientsIsolated ==
    [][BStep =>
          /\ TableOf("A")' = TableOf("A")
          /\ statistics' = statistics
          /\ mgrTimeoutMS' = mgrTimeoutMS
          /\ mgrCallback' = mgrCallback
          /\ \A i \in DOMAIN emitted' : emitted'[i].seq.client # "A"]_vars

\* C10: from a fresh client the k-th allocated SID is ((k-1) mod 254) + 1, in
\* 1..254, and when every request was answered the allocation after the wrap
\* is registered without a "This SID is already waiting a reply" error.
C10_SidSequence ==
    /\ \A rid \in DOMAIN reqs :
          /\ reqs[rid].sid = ((rid - 1) % 254) + 1
          /\ reqs[rid].sid \in 1..254
    /\ headerSID["A"] = IF nextRid = 1 THEN 0 ELSE ((nextRid - 2) % 254) + 1
    /\ \A i \in DOMAIN emitted : emitted[i].err # "sidInUse"

\* the 255th request, after 254 replies, registered under SID 1
C10_Wrapped ==
    \E rid \in DOMAIN reqs :
        /\ rid = 255
        /\ reqs[rid].sid = 1
        /\ reqs[rid].phase = "registered"
        /\ sequences[1] = rid
        /\ statistics.replyCount = 254

\* C11: without close() / reconnect() and with timers that fire, every
\* admitted request eventually has its completion (reply, timeout or send
\* error) delivered with the matching flag set; its frame is handed to the
\* socket once, when it is registered, and never again; and a completion of
\* a request that was neither answered nor failed to send is a timeout.
CompletionOf(rid) ==
    \E i \in DOMAIN emitted :
        /\ emitted[i].rid = rid
        /\ emitted[i].kind \in Deliveries
        /\ \/ emitted[i].err = "none" /\ emitted[i].seq.complete
           \/ emitted[i].err = "timeout" /\ emitted[i].seq.timeout
           \/ emitted[i].err = "send" /\ emitted[i].seq.error

C11_AdmittedTerminates ==
    /\ \A rid \in 1..MaxLiveSubmit :
          (rid \in DOMAIN reqs /\ ~Terminal(reqs[rid])) ~> CompletionOf(rid)
    /\ [][\A rid \in DOMAIN reqs' :
             reqs'[rid].sending /\ (rid \notin DOMAIN reqs \/ ~reqs[rid].sending)
             => rid \in DOMAIN reqs /\ reqs[rid].phase = "deferred"]_vars
    /\ [](\A i \in DOMAIN emitted :
             /\ emitted[i].kind \in Deliveries
             /\ emitted[i].rid # 0
             /\ ~emitted[i].seq.complete
             /\ ~emitted[i].seq.error
             => emitted[i].err = "timeout" /\ emitted[i].seq.timeout)

\* a request whose frame was sent and never answered is completed by its timer
C11_LostReplyTimedOut ==
    \E i \in DOMAIN emitted :
        /\ emitted[i].err = "timeout"
        /\ emitted[i].seq.sent
        /\ emitted[i].seq.timeout
        /\ ~emitted[i].seq.complete

\* C20: decoding the end-code bytes (0xC0, 0x40) yields networkRelayError =
\* true, nonFatalCpuUnitError = true, fatalCpuUnitError = false and
\* endCode = "0040".
EndCodeC040 ==
    rx.fn = "_processEndCode" /\ rx.in = <<192, 64>> /\ rx.out # <<>>

C20_EndCodeC040_Original ==
    EndCodeC040 =>
        /\ rx.out[1].NetworkRelayError = TRUE
        /\ rx.out[1].NonFatalCPUUnitErr = TRUE
        /\ rx.out[1].FatalCPUUnitErr = FALSE
        /\ rx.out[1].endCode = "0040"

\* C20 as the code and the masks MRES & 0x3F, SRES & 0x2F have it: the flags
\* are as stated and the flag bits are masked out of the end code, which is
\* "0000".
C20_EndCodeC040 ==
    EndCodeC040 =>
        /\ rx.out[1].NetworkRelayError = TRUE
        /\ rx.out[1].NonFatalCPUUnitErr = TRUE
        /\ rx.out[1].FatalCPUUnitErr = FALSE
        /\ rx.out[1].MRES = 0
        /\ rx.out[1].SRES = 0
        /\ rx.out[1].endCode = "0000"

C20_Decoded == EndCodeC040 /\ rx.out[1].endCode = "0000"

\* C13: a direct call of a command method with an invalid argument, while
\* the queue has room, delivers an error (callback, else `error` event),
\* returns null, queues no transmission and registers no sequence.
InvalidCall(c) == queueCount(c) < max_queue[c] /\ SubmitInvalid(c)

C13_InvalidArgumentRejected ==
    [][InvalidCall("A") =>
          /\ \E i \in DOMAIN emitted' :
                /\ emitted'[i].kind \in {"callback", "error"}
                /\ emitted'[i].err = "invalid"
          /\ \E i \in DOMAIN emitted' :
                emitted'[i].kind = "return" /\ emitted'[i].val = 0
          /\ immediates' = immediates
          /\ reqs' = reqs
          /\ sequences' = sequences]_vars

\* C15: command() with an unknown code or a rejected parameter, while the
\* queue has room, delivers an error (callback, else `error` event) without
\* throwing, returns null and hands nothing to a command method.
RejectedCommand(c) == queueCount(c) < max_queue[c] /\ CommandInvalid(c)

C15_CommandRejectsWithoutThrow ==
    [][RejectedCommand("A") =>
          /\ \A i \in DOMAIN emitted' : emitted'[i].kind # "throw"
          /\ \E i \in DOMAIN emitted' :
                /\ emitted'[i].kind \in {"callback", "error"}
                /\ emitted'[i].err = "invalid"
          /\ \E i \in DOMAIN emitted' :
                emitted'[i].kind = "return" /\ emitted'[i].val = 0
          /\ immediates' = immediates
          /\ reqs' = reqs]_vars

\* the sequence the table holds for the SID of a frame (0: none)
SeqOf(buf) == get(sequences, at(buf, 9))

\* the frame answers a registered request that has not ended, with the
\* command code of that request
AnswersInFlight(buf) ==
    /\ SeqOf(buf) # 0
    /\ ~Terminal(reqs[SeqOf(buf)])
    /\ CodeBytes(CommandCode(reqs[SeqOf(buf)].cmd)) = <<at(buf, 10), at(buf, 11)>>

EndCodeOf(buf) == _processEndCode(Byte(at(buf, 12)), Byte(at(buf, 13))).endCode

\* C12: a reply to a request in flight whose end code is not 0000 (an error
\* response: end code and no data) is delivered as a success, by the
\* callback with a null error or by the `reply` event, with the sequence
\* complete and not error, the end code on seq.response, and errorCount
\* unchanged.
ErrorResponse(buf) ==
    /\ receive("A", buf)
    /\ AnswersInFlight(buf)
    /\ Len(buf) = 14
    /\ EndCodeOf(buf) # "0000"

C12_EndCodeIsSuccess ==
    [][\A buf \in Datagrams :
          ErrorResponse(buf) =>
             /\ \E i \in DOMAIN emitted' :
                   /\ emitted'[i].kind \in {"callback", "reply"}
                   /\ emitted'[i].err = "none"
                   /\ emitted'[i].seq.complete
                   /\ ~emitted'[i].seq.error
                   /\ emitted'[i].seq.response.endCode = EndCodeOf(buf)
             /\ statistics'.errorCount = statistics.errorCount]_vars

\* C14: a frame whose SID is outside 1..254, or whose SID has no registered
\* sequence, or one that has already completed, timed out or failed, is
\* answered with an error, delivers no reply, and changes no flag of any
\* sequence and no statistic.
StrayFrame(buf) ==
    /\ receive("A", buf)
    /\ SeqOf(buf) = 0 \/ Terminal(reqs[SeqOf(buf)])

C14_StrayFrameIsError ==
    [][\A buf \in Datagrams :
          StrayFrame(buf) =>
             /\ \E i \in DOMAIN emitted' : emitted'[i].kind = "error"
             /\ \A i \in DOMAIN emitted' :
                   emitted'[i].kind \notin {"callback", "reply"}
             /\ statistics' = statistics
             /\ \A rid \in DOMAIN reqs \cap DOMAIN reqs' :
                   /\ reqs'[rid].complete = reqs[rid].complete
                   /\ reqs'[rid].timeout = reqs[rid].timeout
                   /\ reqs'[rid].error = reqs[rid].error]_vars

\* bytes a multi-read body must hold for an address list: per address the
\* echoed area code and 1 byte (bit) or 2 bytes (word)
RECURSIVE ExpectedLength(_)
ExpectedLength(memoryAddressList) ==
    IF memoryAddressList = <<>> THEN 0
    ELSE (IF Head(memoryAddressList).isBitAddress THEN 2 ELSE 3)
         + ExpectedLength(Tail(memoryAddressList))

\* C19: a multi-read response with end code 0000 whose body is shorter than
\* the request's address list requires is answered with an error and is not
\* delivered as a reply.
ShortMultiRead(buf) ==
    /\ receive("A", buf)
    /\ AnswersInFlight(buf)
    /\ reqs[SeqOf(buf)].cmd = "read-multiple"
    /\ EndCodeOf(buf) = "0000"
    /\ Len(buf) - 14 < ExpectedLength(reqs[SeqOf(buf)].address)

C19_ShortMultiReadRejected ==
    [][\A buf \in Datagrams :
          ShortMultiRead(buf) =>
             /\ \E i \in DOMAIN emitted' : emitted'[i].kind = "error"
             /\ \A i \in DOMAIN emitted' :
                   emitted'[i].kind \notin {"callback", "reply"}]_vars

\* C18: a handshake reply that is not 24 bytes long, or that does not start
\* with "FINS", is answered with an error and the transport is closed: no
\* `open` is emitted, the client is not connected, and the client and
\* server node numbers are what they were before the reply.
BadHandshake(data) ==
    Len(data) # HandshakeLength \/ slice(data, 0, 4) # FINS

BadHandshakeRead(n) ==
    /\ conn["A"].onData = "tcp_init_receive"
    /\ TcpRead("A", n)
    /\ BadHandshake(SubSeq(stream, 1, n))

C18_BadHandshakeClosesTransport ==
    [][\A n \in ReadSizes :
          BadHandshakeRead(n) =>
             /\ \E i \in DOMAIN emitted' : emitted'[i].kind = "error"
             /\ \A i \in DOMAIN emitted' : emitted'[i].kind # "open"
             /\ ~conn'["A"].connected
             /\ conn'["A"].client_node_no = conn["A"].client_node_no
             /\ conn'["A"].server_node_no = conn["A"].server_node_no
             /\ ~socket'["A"]]_vars

\* a response to request rid is handed to its callback or to `reply`
DeliveredTo(rid) ==
    Len(SelectSeq(emitted', LAMBDA e : e.kind \in {"callback", "reply"}
                                       /\ e.rid = rid))

\* C16: when one read holds two whole envelopes, every one of the two that
\* answers a request in flight is delivered to that request, whatever
\* happened to the other (unknown SID, command mismatch).
TwoEnvelopeRead(f1, f2) ==
    /\ conn["A"].onData = "receive"
    /\ stream = Envelope(f1) \o Envelope(f2)
    /\ TcpRead("A", Len(stream))

C16_ConcatenatedEnvelopesIndependent ==
    [][\A f1 \in TcpFrames, f2 \in TcpFrames :
          TwoEnvelopeRead(f1, f2) =>
             \A f \in {f1, f2} :
                AnswersInFlight(f) => DeliveredTo(SeqOf(f)) = 1]_vars

\* C17: when one envelope answering a request in flight arrives in two
\* reads, the first read delivers nothing, raises no error and changes
\* nothing but the bytes held back, and the second read delivers the
\* response to its request exactly once.
FirstChunkRead(f, n) ==
    /\ conn["A"].onData = "receive"
    /\ stream = Envelope(f)
    /\ n < Len(stream)
    /\ TcpRead("A", n)

SecondChunkRead(f) ==
    /\ conn["A"].onData = "receive"
    /\ stream # <<>>
    /\ Len(stream) < Len(Envelope(f))
    /\ stream = SubSeq(Envelope(f), Len(Envelope(f)) - Len(stream) + 1,
                       Len(Envelope(f)))
    /\ TcpRead("A", Len(stream))

C17_SplitEnvelopeBuffered ==
    [][\A f \in TcpFrames :
          AnswersInFlight(f) =>
             /\ \A n \in ReadSizes :
                   FirstChunkRead(f, n) =>
                      /\ emitted' = <<>>
                      /\ sequences' = sequences
                      /\ reqs' = reqs
                      /\ statistics' = statistics
             /\ SecondChunkRead(f) =>
                   /\ DeliveredTo(SeqOf(f)) = 1
                   /\ \A i \in DOMAIN emitted' :
                         emitted'[i].kind # "error"]_vars

\* C21: for every end code x of the description table, decoding the two
\* bytes of x gives endCode = x and the description stored for x, never the
\* "undefined" fallback.
C21_DefinedEndCodeRoundTrip ==
    (rx.fn = "_processEndCode" /\ rx.out # <<>> /\ rx.in \in DefinedEndCodes)
        => /\ rx.out[1].endCode = EndCodeKey(rx.in[1], rx.in[2])
           /\ rx.out[1].endCodeDescription
                 = EndCodeDescriptions[EndCodeKey(rx.in[1], rx.in[2])]
           /\ rx.out[1].endCodeDescription # "undefined"

\* canonical address strings: a known area (for an extended bank, the bank
\* and "_"), an offset without leading zero, and for a bit address "." and
\* the bit number
CanonicalAddress(str) ==
    \E a \in AreaInputs \ {<<"Q">>, <<"d">>, <<"_">>, <<>>},
       o \in OffsetInputs \ {<<>>, <<"0", "5">>},
       b \in BitInputs \ {<<".">>} :
        str = a \o o \o b

\* C22: rendering the parsed form of a canonical address string, with
\* offsets 0 and 0, gives the string back.
C22_AddressRoundTrip ==
    (rx.fn = "addressToString" /\ CanonicalAddress(rx.in))
        => rx.out[2] = join(rx.in)

\* C23: for the CS family an address of a known area encodes to the four
\* bytes area code, offset high, offset low, bit or zero: a word address
\* takes its code from the word table and its offset as written, a bit
\* address takes its code from the bit table and sixteen times its offset,
\* both with 0x8000 added for area C and 0x01C0 for area A above 447.
\* "CIO50.3" gives 30 03 20 03 and "C5" gives 89 80 05 00.
EffectiveOffset(a) ==
    (IF a.isBitAddress THEN a.Address * 16 ELSE a.Address)
        + (IF a.MemoryArea = "C" THEN 32768
           ELSE IF a.MemoryArea = "A" /\ a.Address > 447 THEN 448 ELSE 0)

Encoded == rx.fn = "addressToBytes" /\ rx.out[2] # <<>>

C23_EncodeCS ==
    Encoded =>
       /\ rx.out[2] =
             <<IF rx.out[1].isBitAddress
               THEN CSCJ_MODE_BIT_MemoryAreas[rx.out[1].MemoryArea]
               ELSE CSCJ_MODE_WD_MemoryAreas[rx.out[1].MemoryArea],
               EffectiveOffset(rx.out[1]) \div 256,
               EffectiveOffset(rx.out[1]) % 256,
               IF rx.out[1].isBitAddress THEN rx.out[1].Bit ELSE 0>>
       /\ rx.in = <<"C", "I", "O", "5", "0", ".", "3">>
             => rx.out[2] = <<48, 3, 32, 3>>
       /\ rx.in = <<"C", "5">> => rx.out[2] = <<137, 128, 5, 0>>

C23_EncodedC5 ==
    Encoded /\ rx.in = <<"C", "5">> /\ rx.out[2] = <<137, 128, 5, 0>>

\* the anchored grammar: the whole string is an upper-case area of the
\* table (an extended bank with its "_"), an offset of one or more digits
\* and, for a bit address, "." and one or more digits
WellFormedAddress(str) ==
    \E a \in AreaInputs, o \in OffsetInputs \ {<<>>},
       b \in BitInputs \ {<<".">>} :
        /\ str = a \o o \o b
        /\ a # <<>>
        /\ join(IF a[Len(a)] = "_" THEN SubSeq(a, 1, Len(a) - 1) ELSE a)
              \in DOMAIN (IF b = <<>> THEN CSCJ_MODE_WD_MemoryAreas
                                     ELSE CSCJ_MODE_BIT_MemoryAreas)

\* C24: a string that does not match the anchored address grammar ("D",
\* "D100x", "d100"), or whose area is not in the table of the family, is an
\* invalid address: parsing does not throw and the address has no bytes, so
\* that read, write and fill answer "invalid address" and return null.
C24_MalformedAddressRejected ==
    (rx.out # <<>> /\ ~WellFormedAddress(rx.in)) =>
        /\ ~rx.out[1].thrown
        /\ rx.fn = "addressToBytes" => rx.out[2] = <<>>

\* C25: the completion of a request (its callback, or the event that stands
\* for it) is delivered at most once: once a request has been answered,
\* has timed out or has failed, no later step delivers anything for it,
\* neither a reply nor a "This SID is already waiting a reply" error.
C25_CompletionAtMostOnce ==
    [][\A rid \in DOMAIN reqs :
          Terminal(reqs[rid]) =>
             \A i \in DOMAIN emitted' :
                ~(emitted'[i].kind \in Deliveries /\ emitted'[i].rid = rid)]_vars

\* C26: a request's sequence is in the table under its SID, with its timer
\* armed, from the step that hands its frame to the transport on: the
\* outcome of the send finds the sequence registered unless a reply has
\* completed and removed it in between.
C26_RegisteredBeforeSend ==
    [][\A rid \in DOMAIN reqs :
          /\ (rid \in DOMAIN reqs' /\ reqs'[rid].sending /\ ~reqs[rid].sending) =>
                /\ get(sequences', reqs'[rid].sid) = rid
                /\ reqs'[rid].phase = "registered"
                /\ reqs'[rid].timer
          /\ (reqs[rid].sending /\ ~reqs[rid].complete) =>
                get(sequences, reqs[rid].sid) = rid]_vars

\* a send error that was delivered to the sequence registered for it
C26_SendErrorFound ==
    \E i \in DOMAIN emitted :
        /\ emitted[i].err = "send"
        /\ emitted[i].seq.phase = "registered"
        /\ emitted[i].seq.error

\* the body a response with end code 0000 carries for request rid
ValidBodies(rid) ==
    CASE reqs[rid].cmd = "read" ->
           IF reqs[rid].address[1].isBitAddress THEN {<<1>>} ELSE {<<0, 10>>}
      [] reqs[rid].cmd = "read-multiple" -> {<<130, 0, 10, 2, 1>>}
      [] reqs[rid].cmd = "status" -> {Zeros(10)}
      [] OTHER -> {<<>>}

ValidReply(buf) ==
    /\ receive("A", buf)
    /\ AnswersInFlight(buf)
    /\ EndCodeOf(buf) = "0000"
    /\ slice(buf, 14, Len(buf)) \in ValidBodies(SeqOf(buf))

\* C27: a valid reply for a pending request is delivered once, through the
\* request's callback if it has one and through the `reply` event if not;
\* the sequence handed over is complete, holds the response and has no
\* timer; afterwards the table has nothing under the SID and queueCount()
\* is one less.
C27_ReplyDelivered ==
    [][\A buf \in Datagrams :
          ValidReply(buf) =>
             /\ Len(emitted') = 1
             /\ emitted'[1].rid = SeqOf(buf)
             /\ emitted'[1].kind =
                   (IF reqs[SeqOf(buf)].cb THEN "callback" ELSE "reply")
             /\ emitted'[1].err = "none"
             /\ emitted'[1].seq.complete
             /\ ~emitted'[1].seq.timer
             /\ emitted'[1].seq.response.endCode = "0000"
             /\ get(sequences', at(buf, 9)) = 0
             /\ queueCount("A")' = queueCount("A") - 1]_vars

\* a reply handed to the `reply` event, its slot free afterwards
C27_ReplyEventSeen ==
    \E i \in DOMAIN emitted :
        /\ emitted[i].kind = "reply"
        /\ emitted[i].seq.complete
        /\ emitted[i].seq.response.endCode = "0000"
        /\ get(sequences, emitted[i].seq.sid) = 0

\* C28: when the timer of a sequence fires and the sequence is neither
\* complete nor failed, the sequence gets timeout = true, timeoutCount grows
\* by one and the completion is invoked once with the timeout error, by the
\* request's callback if it has one and by the manager's callback if not;
\* when the sequence is complete or failed the expiry changes no flag and no
\* statistic and delivers nothing.
C28_TimerExpiry ==
    [][\A rid \in DOMAIN reqs :
          Timeout(rid) =>
             IF reqs[rid].complete \/ reqs[rid].error
             THEN /\ emitted' = <<>>
                  /\ statistics' = statistics
                  /\ sequences' = sequences
             ELSE /\ Len(emitted') = 1
                  /\ emitted'[1].rid = rid
                  /\ emitted'[1].err = "timeout"
                  /\ emitted'[1].kind =
                        (IF reqs[rid].cb THEN "callback" ELSE "error")
                  /\ emitted'[1].seq.timeout
                  /\ ~emitted'[1].seq.complete
                  /\ ~emitted'[1].seq.error
                  /\ statistics' = [statistics EXCEPT
                                       !.timeoutCount = @ + 1]]_vars

\* a timeout handed to the callback of its request, counted once
C28_TimeoutCalledBack ==
    /\ statistics.timeoutCount = 1
    /\ \E i \in DOMAIN emitted :
          /\ emitted[i].kind = "callback"
          /\ emitted[i].err = "timeout"
          /\ emitted[i].seq.timeout

\* the request whose deferred add() runs next, and the request that holds
\* its SID (0 if none)
Adding == Head(immediates)

Holder == get(sequences, reqs[Adding].sid)

\* add() runs on a slot held by a sequence that has not ended
AddOnBusySlot ==
    /\ immediates # <<>>
    /\ Holder # 0
    /\ ~Terminal(reqs[Holder])
    /\ RunImmediate

\* C29: add() on a slot held by a sequence that has not ended fails with
\* "This SID is already waiting a reply": the new request is not registered,
\* the old sequence keeps the slot with its timer and flags as they were,
\* and the error is reported for the new request, not delivered to the old.
C29_SidInUseRejectsNew ==
    [][AddOnBusySlot =>
          /\ get(sequences', reqs[Adding].sid) = Holder
          /\ reqs'[Holder] = reqs[Holder]
          /\ \E i \in DOMAIN emitted' :
                emitted'[i].err = "sidInUse" /\ emitted'[i].rid = Adding
          /\ \A i \in DOMAIN emitted' : emitted'[i].rid # Holder]_vars

\* add() runs on a slot whose sequence has ended
AddOnEndedSlot ==
    /\ immediates # <<>>
    /\ Holder # 0
    /\ Terminal(reqs[Holder])
    /\ RunImmediate

\* C30: a slot whose sequence has ended, by a reply, a timeout or a send
\* error, can be used again: add() registers the new request under the SID
\* and no "This SID is already waiting a reply" error is raised.
C30_EndedSlotReusable ==
    [][AddOnEndedSlot =>
          /\ get(sequences', reqs[Adding].sid) = Adding
          /\ \A i \in DOMAIN emitted' : emitted'[i].err # "sidInUse"]_vars

\* C31: a sequence that has ended, by a reply, a timeout or a send error,
\* is eventually out of the table, without a later submission that reuses
\* its SID.
C31_RemovedAfterTerminal ==
    \A rid \in 1..MaxLiveSubmit :
        (rid \in DOMAIN reqs /\ Terminal(reqs[rid]))
            ~> (rid \notin Range(sequences))

\* the frame carries the SID of a registered request that has not ended and
\* a command code that is not the code of that request
CommandMismatch(buf) ==
    /\ receive("A", buf)
    /\ SeqOf(buf) # 0
    /\ ~Terminal(reqs[SeqOf(buf)])
    /\ CodeBytes(CommandCode(reqs[SeqOf(buf)].cmd)) # <<at(buf, 10), at(buf, 11)>>

\* C32: a frame whose command code differs from the command of the request
\* registered under its SID is reported as an error, is delivered to nobody
\* as a reply, and leaves the request as it was: in the table, pending, its
\* timer armed, the statistics unchanged.
C32_CommandMismatchIsError ==
    [][\A buf \in Datagrams :
          CommandMismatch(buf) =>
             /\ \E i \in DOMAIN emitted' : emitted'[i].kind = "error"
             /\ \A i \in DOMAIN emitted' :
                   emitted'[i].kind \notin {"callback", "reply"}
             /\ sequences' = sequences
             /\ statistics' = statistics
             /\ SeqOf(buf) \in DOMAIN reqs'
             /\ reqs'[SeqOf(buf)] = reqs[SeqOf(buf)]
             /\ reqs'[SeqOf(buf)].timer]_vars

\* an error has been reported by receive while a read request is registered,
\* pending and armed: the state after a status frame under the read's SID
C32_ErrorWithReadPending ==
    /\ emitted = <<Ev("error", "A", "protocol", 0, NoSeq, 0, "none")>>
    /\ \E sid \in DOMAIN sequences :
          /\ reqs[sequences[sid]].cmd = "read"
          /\ ~Terminal(reqs[sequences[sid]])
          /\ reqs[sequences[sid]].timer
          /\ reqs[sequences[sid]].sent

\* a call refused by the method's validation: the queue has room, an invalid
\* argument is reported and the method returns null
RejectedByValidation(c) ==
    /\ InvalidCall(c)
    /\ \E i \in DOMAIN emitted' :
          emitted'[i].kind = "return" /\ emitted'[i].val = 0

\* C33: a call that validation rejects (it returns null) leaves the SID
\* counter of the client's header unchanged.
C33_RejectedCallKeepsSID ==
    [][RejectedByValidation("A") => headerSID' = headerSID]_vars

\* C35: the length field of the envelope of every outbound TCP data frame,
\* read as a 4-byte big-endian number, is 8 + the length of the FINS frame.
C35_EnvelopeLength ==
    rx.fn = "_transmitCommand" =>
        readUint32BE(rx.out[2], 4) = 8 + Len(rx.out[1])

\* C37: a DNA, DA1 or DA2 value given with a call (0 included) is the value
\* of byte 3, 4 or 5 of the header minted for that call, and a field the call
\* does not give has the value the client was constructed with.
C37_PerCallOverride ==
    rx.fn = "header.next" =>
        \A i \in 1..3 :
            rx.out[2][3 + i] =
                (IF rx.out[1][i] # Undefined THEN rx.out[1][i] ELSE rx.in[i])

\* the frame _transmitCommand was given for the request whose closure runs
\* next: its header as minted, then the command code
QueuedFrame ==
    build(DefaultFinsHeader, Undefined, Undefined, Undefined,
          reqs[Head(immediates)].sid)
        \o CodeBytes(CommandCode(reqs[Head(immediates)].cmd))

\* the deferred closure of a request of the TCP client writes to the socket
TcpWrite ==
    /\ RunImmediate
    /\ conn["A"].protocol = "tcp"
    /\ socket["A"]

\* C34: in TCP mode every data frame is written after the handshake reply
\* has been accepted, with DA1 = the server node and SA1 = the client node
\* that reply assigned.
C34_TcpFrameAfterHandshake ==
    [][TcpWrite =>
          /\ conn["A"].onData = "receive"
          /\ transmitPacket("A", QueuedFrame)[16 + 5] = conn["A"].server_node_no
          /\ transmitPacket("A", QueuedFrame)[16 + 8] = conn["A"].client_node_no]_vars

\* C36: a frame is handed over as a response (callback without error, or
\* `reply` event) only to a request that has not timed out: a reply that
\* arrives after its request timed out is delivered to nobody.
C36_NoDeliveryAfterTimeout ==
    [][\A i \in DOMAIN emitted' :
          (/\ emitted'[i].kind \in {"callback", "reply"}
           /\ emitted'[i].err = "none"
           /\ emitted'[i].rid \in DOMAIN reqs)
             => ~reqs[emitted'[i].rid].timeout]_vars

\* the flags of a sequence that confirmSent must not touch
EndFlags(s) == <<s.complete, s.timeout, s.error, s.timer>>

\* C38: the send callback without error (confirmSent) sets sent on the
\* sequence registered under the SID and changes nothing else: complete,
\* timeout, error and the timer of every sequence, the table, the
\* statistics and activeCount() stay as they were and nothing is delivered;
\* when no sequence is registered under the SID no sequence changes at all.
C38_ConfirmSentOnlyMarksSent ==
    [][\A rid \in DOMAIN reqs :
          SendDone(rid, TRUE) =>
             /\ emitted' = <<>>
             /\ statistics' = statistics
             /\ sequences' = sequences
             /\ activeCount' = activeCount
             /\ \A r \in DOMAIN reqs' :
                   /\ EndFlags(reqs'[r]) = EndFlags(reqs[r])
                   /\ reqs'[r].sent =
                         (reqs[r].sent \/ r = get(sequences, reqs[rid].sid))]_vars

\* a registered sequence that confirmSent has marked and that is still
\* waiting, its timer armed
C38_SentStillWaiting ==
    \E sid \in DOMAIN sequences :
        /\ reqs[sequences[sid]].sent
        /\ ~reqs[sequences[sid]].sending
        /\ ~Terminal(reqs[sequences[sid]])
        /\ reqs[sequences[sid]].timer

\* C39: the two offset bytes of an encoded address hold its effective
\* offset (offset, times sixteen for a bit address, plus the addition of its
\* area) without truncation.
C39_OffsetFitsTwoBytes ==
    Encoded => rx.out[2][2] * 256 + rx.out[2][3] = EffectiveOffset(rx.out[1])
====
